---- MODULE Spec2Model ----
(***************************************************************************)
(* State-machine model of the nanobot concurrency core: session store,     *)
(* message bus, agent tool loop, sub-agent manager, MCP stdio client and   *)
(* heartbeat service.  Go strings that the code concatenates or rewrites   *)
(* are modelled as sequences of tokens (a token stands for a run of        *)
(* characters), so that fmt.Sprintf("%s:%s") and strings.Replacer keep     *)
(* their meaning.                                                          *)
(***************************************************************************)
EXTENDS Integers, Sequences, FiniteSets, TLC

\* ------------------------------------------------------------------ bounds
\* longest transcript a session may reach
MaxMsgs == 3
\* largest index handed to SetConsolidated
MaxIndex == 3
\* largest MaxIterations an AgentLoop is configured with
MaxIterCfg == 2
\* number of turns (processMessage goroutines and ProcessDirect calls)
MaxTurns == 2
\* bufSize handed to NewMessageBus
BufSize == 1
\* number of sub-agent tasks spawned
MaxTasks == 2
\* number of MCPClient.sendRequest calls
MaxCalls == 2
\* number of heartbeat ticker goroutines that can be started
MaxTickers == 2
\* bufSize of the bus whose lanes are exercised by publishers
LaneBufSize == 2
\* number of PublishInbound / PublishOutbound calls on that bus
MaxPubs == 3
\* number of Subscribe calls, and of handler functions
MaxSubs == 2
\* number of AddChannel calls on the channel manager
MaxAdapters == 2
\* number of goroutines that append to one session concurrently
MaxAppenders == 3
\* number of AppendMessage calls each of them makes, one after the other
AppendsEach == 2
\* number of AddJob calls a cron Service accepts
MaxJobs == 3
\* number of cron job functions that can be running at the same time
MaxFirings == 2
\* number of goroutines that call GetOrCreate and Save concurrently
MaxGetters == 2

\* --------------------------------------------------------------- variables
VARIABLES
  cache,      \* session.Manager.cache : key -> Session (pointer target)
  disk,       \* files under Manager.dataDir : filename -> sequence of lines
  ret,        \* result of the last session-store call (for the caller)
  inbound,    \* MessageBus.inbound : buffered channel of InboundMessage
  outbound,   \* MessageBus.outbound : buffered channel of OutboundMessage
  ctxDone,    \* the root ctx has been cancelled
  runPc,      \* go loop.Run(ctx) : "running" or "returned"
  dispPc,     \* go mb.DispatchOutbound(ctx) : "running" or "returned"
  maxIter,    \* AgentLoop.maxIter
  registry,   \* tools.Registry.tools : name -> tool
  turn,       \* one record per processMessage goroutine / ProcessDirect call
  running,    \* SubagentManager.running : ids that map to a cancel func
  counter,    \* SubagentManager.counter
  task,       \* one record per sub-agent goroutine
  subRet,     \* result of the last SubagentManager call
  client,     \* MCPClient : reqID, pending (ids with a reply channel), done
  server,     \* the MCP sub-process : alive, requests read, stdout lines
  reader,     \* MCPClient.readLoop : pc and the response in hand
  call,       \* one record per sendRequest call
  hb,         \* heartbeat.Service : running, stopCh, ctx
  ticker,     \* one pc per goroutine started by Service.Start
  bufSize,    \* MessageBus.bufSize
  busClosed,  \* MessageBus.Close has closed both lanes
  pub,        \* one record per PublishInbound / PublishOutbound call
  pubLog,     \* per lane, the messages in the order their sends completed
  consumer,   \* a caller of ConsumeInbound : pc, messages received, error
  subs,       \* MessageBus.subs : channel name -> handlers
  handlerLog, \* per handler, the messages it was invoked with
  channels,   \* channels.Manager.channels : the adapters (their names)
  sent,       \* per adapter, the messages its Send was invoked with
  sessMu,     \* Session.mu per session key : 0, or the goroutine holding it
  appender,   \* one record per goroutine that calls Session.AppendMessage
  cron,       \* cron.Service : counter, jobs, jobDefs, the scheduler
  cronStore,  \* the file at Service.storePath : Nil or the stored jobs
  cronRet,    \* result of the last cron.Service call
  firing,     \* the job functions the scheduler has started, per goroutine
  loader,     \* LoadFromDisk on a new Service : pc, jobs still to add
  mgrMu,      \* Manager.mu : 0, or the goroutine holding it
  getter,     \* one record per goroutine inside GetOrCreate or Save
  conn,       \* ConnectMCPServers : per configured server, its goroutine
  connRet     \* what ConnectMCPServers returned

sessVars == <<cache, disk, ret>>
busVars == <<inbound, outbound, ctxDone, runPc, dispPc>>
agentVars == <<maxIter, registry, turn>>
subVars == <<running, counter, task, subRet>>
mcpVars == <<client, server, reader, call>>
hbVars == <<hb, ticker>>
laneVars == <<bufSize, busClosed, pub, pubLog, consumer, subs, handlerLog,
              channels, sent>>
appendVars == <<sessMu, appender>>
cronVars == <<cron, cronStore, cronRet, firing, loader>>
storeVars == <<mgrMu, getter>>
connVars == <<conn, connRet>>

vars == <<cache, disk, ret, inbound, outbound, ctxDone, runPc, dispPc,
          maxIter, registry, turn, running, counter, task, subRet,
          client, server, reader, call, hb, ticker,
          bufSize, busClosed, pub, pubLog, consumer, subs, handlerLog,
          channels, sent, sessMu, appender,
          cron, cronStore, cronRet, firing, loader, mgrMu, getter,
          conn, connRet>>

\* ----------------------------------------------------------- session store
\* session keys used by the callers of the store
Keys == { <<"tg", ":", "c1">> }

\* time.Now().UTC().Format(time.RFC3339): the clock is not modelled, every
\* reading is the token "now"
Now == "now"

\* session.Message values handed to AppendMessage
SessMsgs ==
  { [Role |-> "user", Content |-> "m0", ToolCallID |-> "", ToolCalls |-> <<>>,
     Timestamp |-> ""],
    [Role |-> "tool", Content |-> "big", ToolCallID |-> "c1",
     ToolCalls |-> <<>>, Timestamp |-> "t0"] }

Nil == [nil |-> TRUE]

\* strings.NewReplacer(":", "_", "/", "_").Replace(key) + ".jsonl"
keyToFilename(key) ==
  [i \in 1..Len(key) |-> IF key[i] \in {":", "/"} THEN "_" ELSE key[i]]
    \o <<".jsonl">>

\* Session.AppendMessage: stamp the message if it has no timestamp, append,
\* touch UpdatedAt
AppendMessage(s, msg) ==
  [s EXCEPT !.Messages = Append(s.Messages,
                [msg EXCEPT !.Timestamp =
                   IF msg.Timestamp = "" THEN Now ELSE msg.Timestamp]),
            !.Meta.UpdatedAt = Now]

\* GetHistory that forgets the cursor and returns the whole transcript
GetHistory_NoCursor(s) == s.Messages

\* Session.GetHistory: copy of Messages[LastConsolidated:], empty when the
\* cursor is at or past the end
GetHistory(s) ==
  LET start == s.Meta.LastConsolidated IN
  IF start >= Len(s.Messages) THEN <<>>
  ELSE SubSeq(s.Messages, start + 1, Len(s.Messages))

\* Session.AllMessages: copy of the whole transcript
AllMessages(s) == s.Messages

\* Session.SetConsolidated: stores the index as given
SetConsolidated(s, index) ==
  [s EXCEPT !.Meta.LastConsolidated = index]

\* bufio.MaxScanTokenSize, the longest line a bufio.Scanner with its default
\* buffer returns
MaxScanTokenSize == 65536

\* len(msg.Content) in bytes: the content "big" stands for a tool output of
\* 70000 bytes, every other content for a short text
ContentLen(content) == IF content = "big" THEN 70000 ELSE 16

\* json.Encoder.Encode of the SessionMeta / of one Message: one line each,
\* a message line at least as long as the content it carries
EncodeMeta(meta) == [kind |-> "meta", val |-> meta, len |-> 128]
EncodeMsg(msg) ==
  [kind |-> "msg", val |-> msg, len |-> ContentLen(msg.Content) + 64]
\* a line cut in the middle: no longer a JSON document
PartialLine == [kind |-> "partial", len |-> 8]

\* a scanner without a limit on the length of a line
Scannable_AnyLength(line) == TRUE

\* scanner.Scan() returns the line: it fits the scanner's buffer
Scannable(line) == line.len < MaxScanTokenSize

\* the lines Manager.Save writes, in order
SaveLines(s) ==
  <<EncodeMeta(s.Meta)>> \o [i \in 1..Len(s.Messages) |-> EncodeMsg(s.Messages[i])]

\* the file a Save leaves when it stops after n whole lines, with or without
\* the beginning of the next line
InterruptedLines(s, n, partial) ==
  SubSeq(SaveLines(s), 1, n) \o (IF partial THEN <<PartialLine>> ELSE <<>>)

\* the message lines load keeps: lines that do not unmarshal are skipped,
\* and the loop ends at the first line scanner.Scan() does not return
RECURSIVE ScanMessages(_)
ScanMessages(lines) ==
  IF lines = <<>> THEN <<>>
  ELSE IF ~Scannable(Head(lines)) THEN <<>>
  ELSE IF Head(lines).kind = "msg"
       THEN <<Head(lines).val>> \o ScanMessages(Tail(lines))
       ELSE ScanMessages(Tail(lines))

\* Manager.load: nil when the file is missing, empty or its first line does
\* not unmarshal; otherwise the meta of line 1 and the messages that parse
load(d, key) ==
  LET fn == keyToFilename(key) IN
  IF fn \notin DOMAIN d THEN Nil
  ELSE IF d[fn] = <<>> THEN Nil
  ELSE IF ~Scannable(d[fn][1]) THEN Nil
  ELSE IF d[fn][1].kind # "meta" THEN Nil
  ELSE [Meta |-> d[fn][1].val, Messages |-> ScanMessages(Tail(d[fn]))]

\* the fresh session GetOrCreate builds when load returns nil
NewSession(key) ==
  [Meta |-> [Key |-> key, CreatedAt |-> Now, UpdatedAt |-> Now,
             LastConsolidated |-> 0],
   Messages |-> <<>>]

\* map update m[k] = v
Put(m, k, v) == [x \in DOMAIN m \cup {k} |-> IF x = k THEN v ELSE m[x]]

\* Manager.GetOrCreate on cache c and directory d: the cache afterwards
\* (cached session kept, else the loaded one, else a fresh one)
GetOrCreateCache(c, d, key) ==
  IF key \in DOMAIN c THEN c
  ELSE Put(c, key, IF load(d, key) = Nil THEN NewSession(key) ELSE load(d, key))

\* Manager.Save on directory d: os.Create truncates the file, then the meta
\* line and the message lines follow
SaveDisk(d, s) == Put(d, keyToFilename(s.Meta.Key), SaveLines(s))

GetOrCreate(key) ==
  /\ cache' = GetOrCreateCache(cache, disk, key)
  /\ ret' = [op |-> "GetOrCreate", key |-> key,
             loaded |-> (key \notin DOMAIN cache /\ load(disk, key) # Nil),
             val |-> cache'[key]]
  /\ UNCHANGED <<disk, busVars, agentVars, subVars, mcpVars, hbVars, laneVars,
                 appendVars, cronVars, storeVars, connVars>>

\* a lock that anyone may take at any time
MuFree_Always(holder) == TRUE

\* Session.mu can be taken: no goroutine holds it
MuFree(holder) == holder = 0

\* a caller appends one message to a session it holds
DoAppendMessage(key, msg) ==
  /\ key \in DOMAIN cache
  /\ MuFree(sessMu[key])
  /\ Len(cache[key].Messages) < MaxMsgs
  /\ cache' = [cache EXCEPT ![key] = AppendMessage(cache[key], msg)]
  /\ ret' = [op |-> "AppendMessage", key |-> key]
  /\ UNCHANGED <<disk, busVars, agentVars, subVars, mcpVars, hbVars, laneVars,
                 appendVars, cronVars, storeVars, connVars>>

DoSetConsolidated(key, index) ==
  /\ key \in DOMAIN cache
  /\ MuFree(sessMu[key])
  /\ cache' = [cache EXCEPT ![key] = SetConsolidated(cache[key], index)]
  /\ ret' = [op |-> "SetConsolidated", key |-> key]
  /\ UNCHANGED <<disk, busVars, agentVars, subVars, mcpVars, hbVars, laneVars,
                 appendVars, cronVars, storeVars, connVars>>

\* a result slice whose array is the session's own (s.Messages[start:])
ResultArray_Shared(s, start) == [array |-> "session", offset |-> start]

\* the array behind the slice GetHistory and AllMessages return: a new one
\* (make, then copy; []Message{} when the history is empty)
ResultArray(s, start) == [array |-> "fresh", offset |-> 0]

DoGetHistory(key) ==
  /\ key \in DOMAIN cache
  /\ MuFree(sessMu[key])
  /\ ret' = [op |-> "GetHistory", key |-> key, val |-> GetHistory(cache[key]),
             backing |-> ResultArray(cache[key],
                                     cache[key].Meta.LastConsolidated),
             written |-> FALSE]
  /\ UNCHANGED <<cache, disk, busVars, agentVars, subVars, mcpVars, hbVars, laneVars,
                 appendVars, cronVars, storeVars, connVars>>

DoAllMessages(key) ==
  /\ key \in DOMAIN cache
  /\ MuFree(sessMu[key])
  /\ ret' = [op |-> "AllMessages", key |-> key, val |-> AllMessages(cache[key]),
             backing |-> ResultArray(cache[key], 0), written |-> FALSE]
  /\ UNCHANGED <<cache, disk, busVars, agentVars, subVars, mcpVars, hbVars, laneVars,
                 appendVars, cronVars, storeVars, connVars>>

\* the message a caller writes into a slice it was handed
CallerMsg ==
  [Role |-> "user", Content |-> "edited", ToolCallID |-> "",
   ToolCalls |-> <<>>, Timestamp |-> ""]

\* the caller assigns element i of the slice GetHistory or AllMessages
\* returned to it; the write lands in the array behind that slice, which is
\* the session's only if the two share it
WriteReturned(i, msg) ==
  /\ ret.op \in {"GetHistory", "AllMessages"}
  /\ i \in 1..Len(ret.val)
  /\ ret' = [ret EXCEPT !.val[i] = msg, !.written = TRUE]
  /\ cache' =
       IF /\ ret.backing.array = "session"
          /\ ret.key \in DOMAIN cache
          /\ ret.backing.offset + i <= Len(cache[ret.key].Messages)
       THEN [cache EXCEPT ![ret.key].Messages[ret.backing.offset + i] = msg]
       ELSE cache
  /\ UNCHANGED <<disk, busVars, agentVars, subVars, mcpVars, hbVars, laneVars,
                 appendVars, cronVars, storeVars, connVars>>

Save(key) ==
  /\ key \in DOMAIN cache
  /\ MuFree(sessMu[key])
  /\ disk' = SaveDisk(disk, cache[key])
  /\ ret' = [op |-> "Save", key |-> key, err |-> FALSE]
  /\ UNCHANGED <<cache, busVars, agentVars, subVars, mcpVars, hbVars, laneVars,
                 appendVars, cronVars, storeVars, connVars>>

\* Manager.Save cut short by a write error or by the death of the process
SaveInterrupted(key, n, partial) ==
  /\ key \in DOMAIN cache
  /\ MuFree(sessMu[key])
  /\ n < Len(SaveLines(cache[key]))
  /\ disk' = Put(disk, keyToFilename(cache[key].Meta.Key),
                 InterruptedLines(cache[key], n, partial))
  /\ ret' = [op |-> "Save", key |-> key, err |-> TRUE]
  /\ UNCHANGED <<cache, busVars, agentVars, subVars, mcpVars, hbVars, laneVars,
                 appendVars, cronVars, storeVars, connVars>>

\* session.NewManager over the same dataDir: an empty cache
NewManager ==
  /\ cache' = << >>
  /\ ret' = [op |-> "NewManager"]
  /\ UNCHANGED <<disk, busVars, agentVars, subVars, mcpVars, hbVars, laneVars,
                 appendVars, cronVars, storeVars, connVars>>

\* a session file left in dataDir by an earlier run of the process
OldSession ==
  [Meta |-> [Key |-> <<"tg", ":", "c1">>, CreatedAt |-> Now, UpdatedAt |-> Now,
             LastConsolidated |-> 1],
   Messages |-> << [Role |-> "user", Content |-> "old0", ToolCallID |-> "",
                    ToolCalls |-> <<>>, Timestamp |-> Now],
                   [Role |-> "assistant", Content |-> "old1", ToolCallID |-> "",
                    ToolCalls |-> <<>>, Timestamp |-> Now] >>]

\* a new Manager over a dataDir that is empty or holds the old file
InitSession ==
  /\ cache = << >>
  /\ disk \in { << >>, SaveDisk(<< >>, OldSession) }
  /\ ret = [op |-> "NewManager"]

\* a new Manager over an empty dataDir
InitSessionEmpty ==
  /\ cache = << >>
  /\ disk = << >>
  /\ ret = [op |-> "NewManager"]

\* the goroutines that append to the session concurrently
Appenders == 1..MaxAppenders

\* the message goroutine g hands to its n-th AppendMessage call
AppenderMsg(g, n) ==
  [Role |-> "user", Content |-> <<"msg", ToString(g), "-", ToString(n)>>,
   ToolCallID |-> "", ToolCalls |-> <<>>, Timestamp |-> ""]

\* a goroutine between two AppendMessage calls, n calls returned so far
IdleAppender == [pc |-> "idle", n |-> 0, local |-> <<>>]

\* Session.AppendMessage by goroutine g, statement by statement: s.mu.Lock()
AppendLock(g, key) ==
  /\ key \in DOMAIN cache
  /\ appender[g].pc = "idle"
  /\ appender[g].n < AppendsEach
  /\ MuFree(sessMu[key])
  /\ sessMu' = [sessMu EXCEPT ![key] = g]
  /\ appender' = [appender EXCEPT ![g].pc = "locked"]
  /\ UNCHANGED <<sessVars, busVars, agentVars, subVars, mcpVars, hbVars,
                 laneVars, cronVars, storeVars, connVars>>

\* append(s.Messages, msg) reads the slice s.Messages
AppendRead(g, key) ==
  /\ appender[g].pc = "locked"
  /\ appender' = [appender EXCEPT ![g].pc = "read",
                                  ![g].local = cache[key].Messages]
  /\ UNCHANGED <<sessMu, sessVars, busVars, agentVars, subVars, mcpVars,
                 hbVars, laneVars, cronVars, storeVars,
                 connVars>>

\* s.Messages = append(...): the slice read, with the stamped message after
\* it, is stored; s.Meta.UpdatedAt is touched
AppendStore(g, key) ==
  /\ appender[g].pc = "read"
  /\ cache' = [cache EXCEPT ![key] =
                 AppendMessage([cache[key] EXCEPT !.Messages = appender[g].local],
                               AppenderMsg(g, appender[g].n + 1))]
  /\ appender' = [appender EXCEPT ![g].pc = "stored", ![g].local = <<>>]
  /\ UNCHANGED <<sessMu, disk, ret, busVars, agentVars, subVars, mcpVars,
                 hbVars, laneVars, cronVars, storeVars,
                 connVars>>

\* the deferred s.mu.Unlock(), and the call returns
AppendReturn(g, key) ==
  /\ appender[g].pc = "stored"
  /\ sessMu' = [sessMu EXCEPT ![key] = 0]
  /\ appender' = [appender EXCEPT ![g].pc = "idle", ![g].n = @ + 1]
  /\ UNCHANGED <<sessVars, busVars, agentVars, subVars, mcpVars, hbVars,
                 laneVars, cronVars, storeVars, connVars>>

\* no goroutine is inside a session method
InitAppend ==
  /\ sessMu = [k \in Keys |-> 0]
  /\ appender = [g \in Appenders |-> IdleAppender]

\* a Manager whose GetOrCreate has just handed out a new session
InitSessionHeld ==
  /\ cache = GetOrCreateCache(<< >>, << >>, <<"tg", ":", "c1">>)
  /\ disk = << >>
  /\ ret = [op |-> "GetOrCreate", key |-> <<"tg", ":", "c1">>,
            loaded |-> FALSE, val |-> NewSession(<<"tg", ":", "c1">>)]

\* goroutines appending to one session while a reader calls AllMessages
NextAppend ==
  \/ \E g \in Appenders, k \in Keys : AppendLock(g, k)
  \/ \E g \in Appenders, k \in Keys : AppendRead(g, k)
  \/ \E g \in Appenders, k \in Keys : AppendStore(g, k)
  \/ \E g \in Appenders, k \in Keys : AppendReturn(g, k)
  \/ \E k \in Keys : DoAllMessages(k)

NextSession ==
  \/ \E k \in Keys : GetOrCreate(k)
  \/ \E k \in Keys, m \in SessMsgs : DoAppendMessage(k, m)
  \/ \E k \in Keys, i \in 0..MaxIndex : DoSetConsolidated(k, i)
  \/ \E k \in Keys : DoGetHistory(k)
  \/ \E k \in Keys : DoAllMessages(k)
  \/ \E i \in 1..MaxMsgs : WriteReturned(i, CallerMsg)
  \/ \E k \in Keys : Save(k)
  \/ \E k \in Keys, n \in 0..MaxMsgs, p \in BOOLEAN : SaveInterrupted(k, n, p)
  \/ NewManager

\* --------------------------------------- session store, concurrent callers
\* the goroutines that call Manager.GetOrCreate and Manager.Save
Getters == 1..MaxGetters
IdleGetter == [pc |-> "idle", key |-> <<>>]

\* two session keys that differ only in a character keyToFilename replaces
StoreKeys == { <<"a", ":", "b">>, <<"a", "/", "b">> }

\* GetOrCreate: m.mu.Lock(), with the unlock deferred to the return
GocLock(g, key) ==
  /\ getter[g].pc = "idle"
  /\ mgrMu = 0
  /\ mgrMu' = g
  /\ getter' = [getter EXCEPT ![g] = [pc |-> "locked", key |-> key]]
  /\ UNCHANGED <<sessVars, busVars, agentVars, subVars, mcpVars, hbVars,
                 laneVars, appendVars, cronVars, connVars>>

\* GetOrCreate: the key is in the cache; return s (m.mu is released)
GocHit(g) ==
  /\ getter[g].pc = "locked"
  /\ getter[g].key \in DOMAIN cache
  /\ mgrMu' = 0
  /\ getter' = [getter EXCEPT ![g] = IdleGetter]
  /\ ret' = [op |-> "GetOrCreate", key |-> getter[g].key, loaded |-> FALSE,
             val |-> cache[getter[g].key]]
  /\ UNCHANGED <<cache, disk, busVars, agentVars, subVars, mcpVars, hbVars,
                 laneVars, appendVars, cronVars, connVars>>

\* GetOrCreate: the key is not in the cache; m.load(key) opens the file and
\* starts to scan it
GocMiss(g) ==
  /\ getter[g].pc = "locked"
  /\ getter[g].key \notin DOMAIN cache
  /\ getter' = [getter EXCEPT ![g].pc = "reading"]
  /\ UNCHANGED <<mgrMu, sessVars, busVars, agentVars, subVars, mcpVars,
                 hbVars, laneVars, appendVars, cronVars,
                 connVars>>

\* GetOrCreate: m.load(key) has read the file; the loaded or a new session
\* goes into the cache and is returned (m.mu is released)
GocLoaded(g) ==
  /\ getter[g].pc = "reading"
  /\ cache' = GetOrCreateCache(cache, disk, getter[g].key)
  /\ mgrMu' = 0
  /\ getter' = [getter EXCEPT ![g] = IdleGetter]
  /\ ret' = [op |-> "GetOrCreate", key |-> getter[g].key,
             loaded |-> load(disk, getter[g].key) # Nil,
             val |-> cache'[getter[g].key]]
  /\ UNCHANGED <<disk, busVars, agentVars, subVars, mcpVars, hbVars,
                 laneVars, appendVars, cronVars, connVars>>

\* a goroutine is inside Save of the session of key and holds its read lock
Saving(key) ==
  \E g \in Getters : getter[g].pc = "writing" /\ getter[g].key = key

\* Manager.Save: s.mu.RLock() (shared with other readers), os.Create and
\* the first writes; m.mu is not taken
SaveBegin(g, key) ==
  /\ getter[g].pc = "idle"
  /\ key \in DOMAIN cache
  /\ MuFree(sessMu[key])
  /\ getter' = [getter EXCEPT ![g] = [pc |-> "writing", key |-> key]]
  /\ UNCHANGED <<mgrMu, sessVars, busVars, agentVars, subVars, mcpVars,
                 hbVars, laneVars, appendVars, cronVars,
                 connVars>>

\* Manager.Save: the last line is written, the file closed, the read lock
\* released
SaveEnd(g) ==
  /\ getter[g].pc = "writing"
  /\ disk' = SaveDisk(disk, cache[getter[g].key])
  /\ getter' = [getter EXCEPT ![g] = IdleGetter]
  /\ ret' = [op |-> "Save", key |-> getter[g].key, err |-> FALSE]
  /\ UNCHANGED <<mgrMu, cache, busVars, agentVars, subVars, mcpVars, hbVars,
                 laneVars, appendVars, cronVars, connVars>>

\* AppendMessage by the holder of a session: s.mu.Lock() waits for the
\* readers inside Save
AppendUnlessSaving(key, msg) ==
  /\ ~Saving(key)
  /\ DoAppendMessage(key, msg)

\* no goroutine is inside the store
InitStore ==
  /\ mgrMu = 0
  /\ getter = [g \in Getters |-> IdleGetter]

\* the message the concurrent callers append
StoreMsg ==
  [Role |-> "user", Content |-> "m0", ToolCallID |-> "", ToolCalls |-> <<>>,
   Timestamp |-> ""]

\* goroutines that get, fill and save sessions of two keys concurrently
NextStore ==
  \/ \E g \in Getters, k \in StoreKeys : GocLock(g, k)
  \/ \E g \in Getters : GocHit(g)
  \/ \E g \in Getters : GocMiss(g)
  \/ \E g \in Getters : GocLoaded(g)
  \/ \E g \in Getters, k \in StoreKeys : SaveBegin(g, k)
  \/ \E g \in Getters : SaveEnd(g)
  \/ \E k \in StoreKeys : AppendUnlessSaving(k, StoreMsg)

\* ------------------------------------------------------------- message bus
\* InboundMessage.SessionKey: the override if set, else "channel:chatID"
SessionKey(m) ==
  IF m.SessionKeyOverride # <<>> THEN m.SessionKeyOverride
  ELSE m.Channel \o <<":">> \o m.ChatID

\* inbound messages that channel adapters and synthetic sources publish
ExtInbound ==
  { [Channel |-> <<"tg">>, SenderID |-> "u1", ChatID |-> <<"c1">>,
     Content |-> "hi", SessionKeyOverride |-> <<>>],
    [Channel |-> <<"system">>, SenderID |-> "", ChatID |-> <<>>,
     Content |-> "ping", SessionKeyOverride |-> <<"tg", ":", "c1">>] }

\* NewMessageBus: a bufSize of 0 or less becomes 100
DefaultBufSize == 100
NewMessageBus(size) == IF size <= 0 THEN DefaultBufSize ELSE size
BusCap == NewMessageBus(BufSize)

\* MessageBus.PublishInbound by a channel adapter: blocks while the buffer
\* is full
PublishInbound(m) ==
  /\ Len(inbound) < BusCap
  /\ inbound' = Append(inbound, m)
  /\ UNCHANGED <<outbound, ctxDone, runPc, dispPc, sessVars, agentVars, subVars, mcpVars, hbVars, laneVars,
                 appendVars, cronVars, storeVars, connVars>>

\* cancel() of the root ctx
CancelCtx ==
  /\ ~ctxDone
  /\ ctxDone' = TRUE
  /\ UNCHANGED <<inbound, outbound, runPc, dispPc, sessVars, agentVars, subVars, mcpVars, hbVars, laneVars,
                 appendVars, cronVars, storeVars, connVars>>

\* the subscription name of the wildcard
Wildcard == <<>>

\* the handler that channels.NewManager subscribes
ManagerHandler == 0

\* b.subs[channel], nil for a name without subscribers
SubsOf(s, channel) == IF channel \in DOMAIN s THEN s[channel] ELSE <<>>

\* a dispatch that invokes the handlers of every subscription
Matching_Everyone(s, channel) ==
  SubsOf(s, <<"tg">>) \o SubsOf(s, <<"web">>) \o SubsOf(s, Wildcard)

\* dispatch: the handlers of msg.Channel, then the wildcard handlers
Matching(s, channel) == SubsOf(s, channel) \o SubsOf(s, Wildcard)

\* an adapter lookup that takes the first adapter whatever its name
Route_FirstAdapter(chs, msg) ==
  IF msg.Type = "progress" \/ msg.Type = "tool_hint" \/ chs = <<>> THEN 0 ELSE 1

\* the handler of setupOutboundDispatch: nothing for progress and
\* tool_hint, else the first adapter whose Name() is msg.Channel (0: none)
Route(chs, msg) ==
  IF msg.Type = "progress" \/ msg.Type = "tool_hint" THEN 0
  ELSE IF \E a \in 1..Len(chs) : chs[a] = msg.Channel
       THEN CHOOSE a \in 1..Len(chs) :
              /\ chs[a] = msg.Channel
              /\ \A b \in 1..(a - 1) : chs[b] # msg.Channel
       ELSE 0

\* the handler calls of one dispatch, in order, applied to the handlers'
\* records st = [log, sent]: a recording handler notes the message, the
\* manager's handler calls Send on the adapter it routes to
RECURSIVE Invoke(_, _, _, _)
Invoke(hs, msg, chs, st) ==
  IF hs = <<>> THEN st
  ELSE LET h == Head(hs)
           a == Route(chs, msg) IN
       Invoke(Tail(hs), msg, chs,
              IF h = ManagerHandler
              THEN IF a = 0 THEN st
                   ELSE [st EXCEPT !.sent[a] = Append(@, msg)]
              ELSE [st EXCEPT !.log[h] = Append(@, msg)])

\* dispatch(msg)
dispatch(msg) ==
  Invoke(Matching(subs, msg.Channel), msg, channels,
         [log |-> handlerLog, sent |-> sent])

\* DispatchOutbound, case msg := <-b.outbound: dispatch(msg)
DispatchOutbound ==
  /\ dispPc = "running"
  /\ outbound # <<>>
  /\ outbound' = Tail(outbound)
  /\ handlerLog' = dispatch(Head(outbound)).log
  /\ sent' = dispatch(Head(outbound)).sent
  /\ UNCHANGED <<inbound, ctxDone, runPc, dispPc, sessVars, agentVars, subVars,
                 mcpVars, hbVars, bufSize, busClosed, pub, pubLog, consumer,
                 subs, channels, appendVars, cronVars,
                 storeVars, connVars>>

\* DispatchOutbound, case <-ctx.Done(): return
DispatchReturn ==
  /\ dispPc = "running"
  /\ ctxDone
  /\ dispPc' = "returned"
  /\ UNCHANGED <<inbound, outbound, ctxDone, runPc, sessVars, agentVars, subVars, mcpVars, hbVars, laneVars,
                 appendVars, cronVars, storeVars, connVars>>

\* ------------------------------------------- bus lanes and their callers
Pubs == 1..MaxPubs
Handlers == 1..MaxSubs

\* channel names that outbound messages and subscriptions carry
OutChannels == { <<"tg">>, <<"web">> }

\* the inbound message of publisher p; its content identifies it
LaneInbound(p) ==
  [Channel |-> <<"tg">>, SenderID |-> "u1", ChatID |-> <<"c1">>,
   Content |-> ToString(p), SessionKeyOverride |-> <<>>]

\* the outbound message of publisher p for a channel, of a type
LaneOutbound(p, channel, type) ==
  [Channel |-> channel, ChatID |-> <<"c1">>, Content |-> <<ToString(p)>>,
   Type |-> type]

IdlePub == [pc |-> "idle", lane |-> "none", msg |-> Nil, blocked |-> FALSE]

\* a channel send that never waits
CanSend_Always(q, cap) == TRUE

\* a send on a buffered channel proceeds when the buffer has room
CanSend(q, cap) == Len(q) < cap

\* a receive that takes the newest buffered message
Dequeue_Newest(q) ==
  [msg |-> q[Len(q)], rest |-> SubSeq(q, 1, Len(q) - 1)]

\* a receive on a buffered channel takes the oldest buffered message
Dequeue(q) == [msg |-> Head(q), rest |-> Tail(q)]

\* a send that puts the message in front of the buffered ones
Enqueue_InFront(q, m) == <<m>> \o q

\* a send on a buffered channel puts the message behind the buffered ones
Enqueue(q, m) == Append(q, m)

\* a caller enters PublishInbound(msg); it is blocked from the start when
\* the buffer is full
PublishInboundBegin(p) ==
  /\ pub[p].pc = "idle"
  /\ pub' = [pub EXCEPT ![p] = [pc |-> "sending", lane |-> "inbound",
                                msg |-> LaneInbound(p),
                                blocked |-> ~CanSend(inbound, bufSize)]]
  /\ UNCHANGED <<bufSize, busClosed, pubLog, consumer, subs, handlerLog,
                 channels, sent, busVars, sessVars, agentVars, subVars,
                 mcpVars, hbVars, appendVars, cronVars,
                 storeVars, connVars>>

\* PublishInbound: b.inbound <- msg completes and the call returns
PublishInboundEnd(p) ==
  /\ pub[p].pc = "sending" /\ pub[p].lane = "inbound"
  /\ ~busClosed
  /\ CanSend(inbound, bufSize)
  /\ inbound' = Enqueue(inbound, pub[p].msg)
  /\ pubLog' = [pubLog EXCEPT !.inbound = Append(@, pub[p].msg)]
  /\ pub' = [pub EXCEPT ![p].pc = "returned"]
  /\ UNCHANGED <<outbound, ctxDone, runPc, dispPc, bufSize, busClosed, consumer,
                 subs, handlerLog, channels, sent, sessVars, agentVars,
                 subVars, mcpVars, hbVars, appendVars,
                 cronVars, storeVars, connVars>>

\* a caller enters PublishOutbound(msg)
PublishOutboundBegin(p, channel, type) ==
  /\ pub[p].pc = "idle"
  /\ pub' = [pub EXCEPT ![p] = [pc |-> "sending", lane |-> "outbound",
                                msg |-> LaneOutbound(p, channel, type),
                                blocked |-> ~CanSend(outbound, bufSize)]]
  /\ UNCHANGED <<bufSize, busClosed, pubLog, consumer, subs, handlerLog,
                 channels, sent, busVars, sessVars, agentVars, subVars,
                 mcpVars, hbVars, appendVars, cronVars,
                 storeVars, connVars>>

\* PublishOutbound: b.outbound <- msg completes and the call returns
PublishOutboundEnd(p) ==
  /\ pub[p].pc = "sending" /\ pub[p].lane = "outbound"
  /\ ~busClosed
  /\ CanSend(outbound, bufSize)
  /\ outbound' = Enqueue(outbound, pub[p].msg)
  /\ pubLog' = [pubLog EXCEPT !.outbound = Append(@, pub[p].msg)]
  /\ pub' = [pub EXCEPT ![p].pc = "returned"]
  /\ UNCHANGED <<inbound, ctxDone, runPc, dispPc, bufSize, busClosed, consumer,
                 subs, handlerLog, channels, sent, sessVars, agentVars,
                 subVars, mcpVars, hbVars, appendVars,
                 cronVars, storeVars, connVars>>

\* a send on a lane that Close has closed panics
PublishPanics(p) ==
  /\ pub[p].pc = "sending"
  /\ busClosed
  /\ pub' = [pub EXCEPT ![p].pc = "panicked"]
  /\ UNCHANGED <<bufSize, busClosed, pubLog, consumer, subs, handlerLog,
                 channels, sent, busVars, sessVars, agentVars, subVars,
                 mcpVars, hbVars, appendVars, cronVars,
                 storeVars, connVars>>

\* ConsumeInbound, case msg, ok := <-b.inbound with ok: return msg, nil; the
\* caller calls again
ConsumeMessage ==
  /\ consumer.pc = "consuming"
  /\ inbound # <<>>
  /\ inbound' = Dequeue(inbound).rest
  /\ consumer' = [consumer EXCEPT !.got = Append(@, Dequeue(inbound).msg)]
  /\ UNCHANGED <<outbound, ctxDone, runPc, dispPc, bufSize, busClosed, pub,
                 pubLog, subs, handlerLog, channels, sent, sessVars, agentVars,
                 subVars, mcpVars, hbVars, appendVars,
                 cronVars, storeVars, connVars>>

\* ConsumeInbound, case <-ctx.Done(): return ctx.Err(); the caller stops
ConsumeCancelled ==
  /\ consumer.pc = "consuming"
  /\ ctxDone
  /\ consumer' = [consumer EXCEPT !.pc = "returned", !.case = "ctx.Done",
                                  !.err = "context canceled"]
  /\ UNCHANGED <<bufSize, busClosed, pub, pubLog, subs, handlerLog, channels,
                 sent, busVars, sessVars, agentVars, subVars, mcpVars, hbVars,
                 appendVars, cronVars, storeVars, connVars>>

\* ConsumeInbound, case msg, ok := <-b.inbound with !ok (closed and
\* drained): return context.Canceled; the caller stops
ConsumeClosed ==
  /\ consumer.pc = "consuming"
  /\ busClosed /\ inbound = <<>>
  /\ consumer' = [consumer EXCEPT !.pc = "returned", !.case = "closed",
                                  !.err = "context canceled"]
  /\ UNCHANGED <<bufSize, busClosed, pub, pubLog, subs, handlerLog, channels,
                 sent, busVars, sessVars, agentVars, subVars, mcpVars, hbVars,
                 appendVars, cronVars, storeVars, connVars>>

\* MessageBus.Close: close(b.inbound), close(b.outbound)
CloseBus ==
  /\ ~busClosed
  /\ busClosed' = TRUE
  /\ UNCHANGED <<bufSize, pub, pubLog, consumer, subs, handlerLog, channels,
                 sent, busVars, sessVars, agentVars, subVars, mcpVars, hbVars,
                 appendVars, cronVars, storeVars, connVars>>

\* the number of Subscribe calls made so far with recording handlers
Subscribed ==
  Cardinality({ <<c, j>> \in (OutChannels \cup {Wildcard}) \X (1..(MaxSubs + 1)) :
                  j <= Len(SubsOf(subs, c)) /\ SubsOf(subs, c)[j] # ManagerHandler })

\* MessageBus.Subscribe(channel, fn): append fn to b.subs[channel]
Subscribe(channel, h) ==
  /\ Subscribed < MaxSubs
  /\ subs' = Put(subs, channel, Append(SubsOf(subs, channel), h))
  /\ UNCHANGED <<bufSize, busClosed, pub, pubLog, consumer, handlerLog,
                 channels, sent, busVars, sessVars, agentVars, subVars,
                 mcpVars, hbVars, appendVars, cronVars,
                 storeVars, connVars>>

\* DispatchOutbound, case msg, ok := <-b.outbound with !ok: return
DispatchClosed ==
  /\ dispPc = "running"
  /\ busClosed /\ outbound = <<>>
  /\ dispPc' = "returned"
  /\ UNCHANGED <<inbound, outbound, ctxDone, runPc, sessVars, agentVars, subVars,
                 mcpVars, hbVars, laneVars, appendVars,
                 cronVars, storeVars, connVars>>

\* the channel manager has been built on this bus
ManagerBuilt ==
  \E j \in 1..Len(SubsOf(subs, Wildcard)) : SubsOf(subs, Wildcard)[j] = ManagerHandler

\* channels.NewManager: setupOutboundDispatch subscribes the manager's
\* handler as a wildcard
NewChannelsManager ==
  /\ ~ManagerBuilt
  /\ subs' = Put(subs, Wildcard, Append(SubsOf(subs, Wildcard), ManagerHandler))
  /\ UNCHANGED <<bufSize, busClosed, pub, pubLog, consumer, handlerLog,
                 channels, sent, busVars, sessVars, agentVars, subVars,
                 mcpVars, hbVars, appendVars, cronVars,
                 storeVars, connVars>>

\* Manager.AddChannel: the adapter the factory built is appended
AddChannel(name) ==
  /\ ManagerBuilt
  /\ Len(channels) < MaxAdapters
  /\ channels' = Append(channels, name)
  /\ UNCHANGED <<bufSize, busClosed, pub, pubLog, consumer, subs, handlerLog,
                 sent, busVars, sessVars, agentVars, subVars, mcpVars, hbVars,
                 appendVars, cronVars, storeVars, connVars>>

\* the lanes of a bus built by NewMessageBus(n), without callers yet
LanesOf(n) ==
  /\ bufSize = NewMessageBus(n)
  /\ busClosed = FALSE
  /\ pub = [p \in Pubs |-> IdlePub]
  /\ pubLog = [inbound |-> <<>>, outbound |-> <<>>]
  /\ consumer = [pc |-> "consuming", got |-> <<>>, case |-> "none", err |-> ""]
  /\ subs = <<>>
  /\ handlerLog = [h \in Handlers |-> <<>>]
  /\ channels = <<>>
  /\ sent = [a \in 1..MaxAdapters |-> <<>>]

InitLanes == LanesOf(BufSize)

NextBus ==
  \/ \E p \in Pubs : PublishInboundBegin(p)
  \/ \E p \in Pubs : PublishInboundEnd(p)
  \/ \E p \in Pubs : PublishPanics(p)
  \/ ConsumeMessage
  \/ ConsumeCancelled
  \/ ConsumeClosed
  \/ CancelCtx
  \/ CloseBus

NextFanOut ==
  \/ \E p \in Pubs, c \in OutChannels : PublishOutboundBegin(p, c, "text")
  \/ \E p \in Pubs : PublishOutboundEnd(p)
  \/ \E c \in OutChannels \cup {Wildcard}, h \in Handlers : Subscribe(c, h)
  \/ DispatchOutbound
  \/ DispatchReturn
  \/ DispatchClosed
  \/ CancelCtx
  \/ CloseBus

\* publishers of messages for tg and of messages without channel name,
\* subscribers for tg and wildcard subscribers, and the dispatcher
NextFanOutUnnamed ==
  \/ \E p \in Pubs, c \in {<<"tg">>, <<>>} : PublishOutboundBegin(p, c, "text")
  \/ \E p \in Pubs : PublishOutboundEnd(p)
  \/ \E c \in {<<"tg">>, Wildcard}, h \in Handlers : Subscribe(c, h)
  \/ DispatchOutbound

NextChannels ==
  \/ NewChannelsManager
  \/ \E n \in OutChannels : AddChannel(n)
  \/ \E p \in Pubs, c \in {<<"tg">>, <<>>},
        ty \in {"text", "progress", "tool_hint"} :
       PublishOutboundBegin(p, c, ty)
  \/ \E p \in Pubs : PublishOutboundEnd(p)
  \/ DispatchOutbound

\* -------------------------------------------------------------- agent loop
Turns == 1..MaxTurns

\* NewAgentLoop: MaxIterations of 0 or less becomes 40
DefaultMaxIter == 40
NewAgentLoop(maxIterations) ==
  IF maxIterations <= 0 THEN DefaultMaxIter ELSE maxIterations

IdleTurn ==
  [pc |-> "idle", kind |-> "none", msg |-> Nil, key |-> <<>>,
   messages |-> <<>>, hlen |-> 0, i |-> 0, pending |-> <<>>,
   final |-> "", err |-> "none", calls |-> 0, lastResp |-> "",
   allTools |-> TRUE, appended |-> 0, saved |-> FALSE, out |-> <<>>]

\* the goroutine or call slot the next turn runs in
FreeTurn == CHOOSE t \in Turns :
              /\ turn[t].pc = "idle"
              /\ \A u \in Turns : turn[u].pc = "idle" => t <= u

\* tool calls a provider response may carry
ToolCall(id, name) == [ID |-> id, Name |-> name, Arguments |-> "{}"]
ToolCallLists ==
  { <<ToolCall("tc1", "echo"), ToolCall("tc2", "nope")>> }

\* what provider.Chat may return: an error, a final response, or a response
\* with tool calls (with or without text)
ChatOutcomes ==
  { [err |-> TRUE, Content |-> "", ToolCalls |-> <<>>],
    [err |-> FALSE, Content |-> "done", ToolCalls |-> <<>>] } \cup
  { [err |-> FALSE, Content |-> c, ToolCalls |-> tcs] :
      c \in {"", "thinking"}, tcs \in ToolCallLists }

\* what a tool body may return from Execute: (result, err)
ToolOutcomes == { [err |-> FALSE, text |-> "out"], [err |-> TRUE, text |-> "boom"] }

\* strings.Join(names, ", ") over the registered names; the order is the
\* map's iteration order, which is unique for a registry of one tool
RECURSIVE JoinNames(_)
JoinNames(names) ==
  IF names = {} THEN <<>>
  ELSE LET n == CHOOSE x \in names : TRUE IN
       IF names = {n} THEN <<n>> ELSE <<n, ", ">> \o JoinNames(names \ {n})

\* a registry that hands the model an empty result for a failed call
Execute_EmptyOnFailure(reg, name, outcome) ==
  IF name \notin DOMAIN reg \/ outcome.err THEN <<>> ELSE <<outcome.text>>

\* Registry.Execute: always a string; unknown tools and tool errors become
\* text for the model
Execute(reg, name, outcome) ==
  IF name \notin DOMAIN reg
  THEN <<"Unknown tool: ", name, ". Available tools: ">> \o JoinNames(DOMAIN reg)
  ELSE IF outcome.err
       THEN <<"Error executing ", name, ": ", outcome.text,
              "\n\n[Analyze the error above and try a different approach.]">>
       ELSE <<outcome.text>>

\* sessionToProviderMessages: role, content, tool-call id and tool calls of
\* each history entry; the timestamp is dropped
sessionToProviderMessages(history) ==
  [j \in 1..Len(history) |->
     [Role |-> history[j].Role, Content |-> history[j].Content,
      ToolCallID |-> history[j].ToolCallID,
      ToolCalls |-> history[j].ToolCalls]]

\* a provider message that loses its tool-call id
ProviderMsg_NoCallID(role, content, tcs, tcid) ==
  [Role |-> role, Content |-> content, ToolCallID |-> "", ToolCalls |-> tcs]

\* a providers.Message literal
ProviderMsg(role, content, tcs, tcid) ==
  [Role |-> role, Content |-> content, ToolCallID |-> tcid, ToolCalls |-> tcs]

\* a session message that loses its role
SessionMsg_AlwaysUser(role, content) ==
  [Role |-> "user", Content |-> content, ToolCallID |-> "", ToolCalls |-> <<>>,
   Timestamp |-> ""]

\* a session.Message literal with Role and Content only
SessionMsg(role, content) ==
  [Role |-> role, Content |-> content, ToolCallID |-> "", ToolCalls |-> <<>>,
   Timestamp |-> ""]

\* a loop condition that admits one iteration too many
LoopContinues_OffByOne(i, n) == i <= n

\* runToolLoop, loop condition: i < a.maxIter
LoopContinues(i, n) == i < n

\* runToolLoop after the loop: the content of the last assistant message,
\* or the error "max iterations reached without a final response"
RECURSIVE LastAssistant(_, _)
LastAssistant(msgs, j) ==
  IF j = 0 THEN [found |-> FALSE, Content |-> ""]
  ELSE IF msgs[j].Role = "assistant"
       THEN [found |-> TRUE, Content |-> msgs[j].Content]
       ELSE LastAssistant(msgs, j - 1)

\* a turn that goes on to persist although runToolLoop failed
AfterLoopPc_IgnoresErr(err) == "appendUser"

\* processMessage / ProcessDirect after runToolLoop: an error ends the turn
\* before anything is persisted
AfterLoopPc(err) == IF err # "none" THEN "fail" ELSE "appendUser"

\* the outbound error message of processMessage
ErrorOutbound(msg, err) ==
  [Channel |-> msg.Channel, ChatID |-> msg.ChatID,
   Content |-> <<"Error: ", err>>, Type |-> "error"]

\* a reply addressed to the session key instead of the chat
TextOutbound_ToSessionKey(msg, finalContent) ==
  [Channel |-> msg.Channel, ChatID |-> SessionKey(msg),
   Content |-> <<finalContent>>, Type |-> "text"]

\* the outbound reply of processMessage
TextOutbound(msg, finalContent) ==
  [Channel |-> msg.Channel, ChatID |-> msg.ChatID,
   Content |-> <<finalContent>>, Type |-> "text"]

\* Run: ConsumeInbound returned a message; go a.processMessage(ctx, msg)
RunConsume ==
  /\ runPc = "running"
  /\ inbound # <<>>
  /\ \E t \in Turns : turn[t].pc = "idle"
  /\ inbound' = Tail(inbound)
  /\ turn' = [turn EXCEPT ![FreeTurn] =
                [IdleTurn EXCEPT !.pc = "start", !.kind = "bus",
                                 !.msg = Head(inbound),
                                 !.key = SessionKey(Head(inbound))]]
  /\ UNCHANGED <<outbound, ctxDone, runPc, dispPc, sessVars, maxIter, registry, subVars, mcpVars, hbVars, laneVars,
                 appendVars, cronVars, storeVars, connVars>>

\* Run: ConsumeInbound returned ctx.Err(); Run returns it
RunReturn ==
  /\ runPc = "running"
  /\ ctxDone
  /\ runPc' = "returned"
  /\ UNCHANGED <<inbound, outbound, ctxDone, dispPc, sessVars, agentVars, subVars, mcpVars, hbVars, laneVars,
                 appendVars, cronVars, storeVars, connVars>>

\* a caller enters ProcessDirect(ctx, message)
ProcessDirect(message) ==
  /\ \E t \in Turns : turn[t].pc = "idle"
  /\ turn' = [turn EXCEPT ![FreeTurn] =
                [IdleTurn EXCEPT !.pc = "start", !.kind = "direct",
                                 !.msg = [Content |-> message],
                                 !.key = <<"direct">>]]
  /\ UNCHANGED <<busVars, sessVars, maxIter, registry, subVars, mcpVars, hbVars, laneVars,
                 appendVars, cronVars, storeVars, connVars>>

\* sess := a.sessions.GetOrCreate(key)
TurnGetOrCreate(t) ==
  /\ turn[t].pc = "start"
  /\ cache' = GetOrCreateCache(cache, disk, turn[t].key)
  /\ turn' = [turn EXCEPT ![t].pc = "history"]
  /\ UNCHANGED <<disk, ret, busVars, maxIter, registry, subVars, mcpVars, hbVars, laneVars,
                 appendVars, cronVars, storeVars, connVars>>

\* messages := sessionToProviderMessages(sess.GetHistory()) plus the user
\* message of this turn
TurnGetHistory(t) ==
  /\ turn[t].pc = "history"
  /\ LET h == sessionToProviderMessages(GetHistory(cache[turn[t].key])) IN
     turn' = [turn EXCEPT
                ![t].messages = Append(h, ProviderMsg("user", turn[t].msg.Content,
                                                      <<>>, "")),
                ![t].hlen = Len(h),
                ![t].pc = "loop"]
  /\ UNCHANGED <<busVars, sessVars, maxIter, registry, subVars, mcpVars, hbVars, laneVars,
                 appendVars, cronVars, storeVars, connVars>>

\* a loop that returns nothing for a response without tool calls
FinalContent_Empty(resp) == ""

\* runToolLoop, len(resp.ToolCalls) == 0: return resp.Content, nil
FinalContent(resp) == resp.Content

\* runToolLoop, one provider.Chat call and what follows it up to the first
\* tool execution
TurnChat(t, o) ==
  /\ turn[t].pc = "loop"
  /\ LoopContinues(turn[t].i, maxIter)
  /\ turn' = [turn EXCEPT
       ![t].calls = @ + 1,
       ![t].lastResp = IF o.err THEN @ ELSE o.Content,
       ![t].allTools = @ /\ ~o.err /\ o.ToolCalls # <<>>,
       ![t].messages = IF o.err \/ o.ToolCalls = <<>> THEN <<>>
                       ELSE Append(@, ProviderMsg("assistant", o.Content,
                                                  o.ToolCalls, "")),
       ![t].pending = IF o.err THEN <<>> ELSE o.ToolCalls,
       ![t].err = IF o.err THEN "provider chat error" ELSE "none",
       ![t].final = IF o.err THEN ""
                    ELSE IF o.ToolCalls = <<>> THEN FinalContent(o) ELSE @,
       ![t].pc = IF o.err THEN AfterLoopPc("provider chat error")
                 ELSE IF o.ToolCalls = <<>> THEN AfterLoopPc("none")
                 ELSE "tools"]
  /\ UNCHANGED <<busVars, sessVars, maxIter, registry, subVars, mcpVars, hbVars, laneVars,
                 appendVars, cronVars, storeVars, connVars>>

\* runToolLoop, one a.tools.Execute call and the tool message it appends;
\* after the last call of the response the iteration counter advances
TurnTool(t, o) ==
  /\ turn[t].pc = "tools"
  /\ LET tc == Head(turn[t].pending) IN
     turn' = [turn EXCEPT
       ![t].messages = Append(@, ProviderMsg("tool",
                                   Execute(registry, tc.Name, o), <<>>, tc.ID)),
       ![t].pending = Tail(@),
       ![t].i = IF Tail(turn[t].pending) = <<>> THEN @ + 1 ELSE @,
       ![t].pc = IF Tail(turn[t].pending) = <<>> THEN "loop" ELSE "tools"]
  /\ UNCHANGED <<busVars, sessVars, maxIter, registry, subVars, mcpVars, hbVars, laneVars,
                 appendVars, cronVars, storeVars, connVars>>

\* runToolLoop, the ceiling was reached: return the last assistant content
TurnCeiling(t) ==
  /\ turn[t].pc = "loop"
  /\ ~LoopContinues(turn[t].i, maxIter)
  /\ LET la == LastAssistant(turn[t].messages, Len(turn[t].messages)) IN
     turn' = [turn EXCEPT
       ![t].messages = <<>>,
       ![t].final = la.Content,
       ![t].err = IF la.found THEN "none" ELSE "max iterations reached",
       ![t].pc = AfterLoopPc(IF la.found THEN "none" ELSE "max iterations reached")]
  /\ UNCHANGED <<busVars, sessVars, maxIter, registry, subVars, mcpVars, hbVars, laneVars,
                 appendVars, cronVars, storeVars, connVars>>

\* the error branch: processMessage publishes an error message and returns,
\* ProcessDirect returns the error
TurnFail(t) ==
  /\ turn[t].pc = "fail"
  /\ IF turn[t].kind = "bus"
     THEN /\ Len(outbound) < BusCap
          /\ outbound' = Append(outbound, ErrorOutbound(turn[t].msg, turn[t].err))
          /\ turn' = [turn EXCEPT
               ![t].out = Append(@, ErrorOutbound(turn[t].msg, turn[t].err)),
               ![t].pc = "done"]
     ELSE /\ turn' = [turn EXCEPT ![t].pc = "done"]
          /\ UNCHANGED outbound
  /\ UNCHANGED <<inbound, ctxDone, runPc, dispPc, sessVars, maxIter, registry, subVars, mcpVars, hbVars, laneVars,
                 appendVars, cronVars, storeVars, connVars>>

\* sess.AppendMessage(user message of the turn)
TurnAppendUser(t) ==
  /\ turn[t].pc = "appendUser"
  /\ cache' = [cache EXCEPT ![turn[t].key] =
                 AppendMessage(@, SessionMsg("user", turn[t].msg.Content))]
  /\ turn' = [turn EXCEPT ![t].appended = @ + 1, ![t].pc = "appendAssistant"]
  /\ UNCHANGED <<disk, ret, busVars, maxIter, registry, subVars, mcpVars, hbVars, laneVars,
                 appendVars, cronVars, storeVars, connVars>>

\* sess.AppendMessage(final assistant content)
TurnAppendAssistant(t) ==
  /\ turn[t].pc = "appendAssistant"
  /\ cache' = [cache EXCEPT ![turn[t].key] =
                 AppendMessage(@, SessionMsg("assistant", turn[t].final))]
  /\ turn' = [turn EXCEPT ![t].appended = @ + 1, ![t].pc = "save"]
  /\ UNCHANGED <<disk, ret, busVars, maxIter, registry, subVars, mcpVars, hbVars, laneVars,
                 appendVars, cronVars, storeVars, connVars>>

\* a.sessions.Save(sess); a failure is logged and the turn goes on
TurnSave(t) ==
  /\ turn[t].pc = "save"
  /\ disk' = SaveDisk(disk, cache[turn[t].key])
  /\ turn' = [turn EXCEPT ![t].saved = TRUE,
                          ![t].pc = IF turn[t].kind = "bus" THEN "publish" ELSE "done"]
  /\ UNCHANGED <<cache, ret, busVars, maxIter, registry, subVars, mcpVars, hbVars, laneVars,
                 appendVars, cronVars, storeVars, connVars>>

\* a.sessions.Save(sess) fails before it writes (MkdirAll or Create)
TurnSaveFails(t) ==
  /\ turn[t].pc = "save"
  /\ turn' = [turn EXCEPT ![t].pc = IF turn[t].kind = "bus" THEN "publish" ELSE "done"]
  /\ UNCHANGED <<sessVars, busVars, maxIter, registry, subVars, mcpVars, hbVars, laneVars,
                 appendVars, cronVars, storeVars, connVars>>

\* processMessage publishes the reply
TurnPublish(t) ==
  /\ turn[t].pc = "publish"
  /\ Len(outbound) < BusCap
  /\ outbound' = Append(outbound, TextOutbound(turn[t].msg, turn[t].final))
  /\ turn' = [turn EXCEPT
       ![t].out = Append(@, TextOutbound(turn[t].msg, turn[t].final)),
       ![t].pc = "done"]
  /\ UNCHANGED <<inbound, ctxDone, runPc, dispPc, sessVars, maxIter, registry, subVars, mcpVars, hbVars, laneVars,
                 appendVars, cronVars, storeVars, connVars>>

\* ------------------------------------------------------- sub-agent manager
TaskIds == 0..(MaxTasks - 1)

\* const maxIter = 15 of the sub-agent loop
SubMaxIter == 15

\* the isolated registry of a sub-agent: file-system and shell tools
IsolatedTools ==
  [n \in {"read_file", "write_file", "edit_file", "list_dir", "run_shell"} |-> n]

\* what provider.Chat returns to a sub-agent: an error, a final response or
\* a response with one tool call
SubChatOutcomes ==
  { [err |-> TRUE, Content |-> "", ToolCalls |-> <<>>],
    [err |-> FALSE, Content |-> "result", ToolCalls |-> <<>>],
    [err |-> FALSE, Content |-> "thinking",
     ToolCalls |-> <<ToolCall("tc1", "list_dir")>>] }

\* the parameters of the Spawn calls
SpawnArgs ==
  { [task |-> "do it", label |-> "lbl", originChannel |-> <<"tg">>,
     originChatID |-> <<"c1">>] }

IdleTask ==
  [pc |-> "none", args |-> Nil, cancelled |-> FALSE, messages |-> <<>>,
   pending |-> <<>>, i |-> 0, result |-> <<>>, published |-> 0,
   cancelWon |-> FALSE]

\* the verb %q on a label of letters, digits and dashes: the label between
\* double quotes (a quote, backslash or control character in it would be
\* escaped)
Quote(label) == <<"\"", label, "\"">>

\* a completion message addressed to the session of the system channel
CompletionMessage_NoOverride(args, result) ==
  [Channel |-> <<"system">>, SenderID |-> "", ChatID |-> <<>>,
   Content |-> <<"[Subagent ">> \o Quote(args.label)
                 \o <<" completed]", "\n\n">> \o result,
   SessionKeyOverride |-> <<>>]

\* the synthetic inbound message a sub-agent publishes when its loop ends
CompletionMessage(args, result) ==
  [Channel |-> <<"system">>, SenderID |-> "", ChatID |-> <<>>,
   Content |-> <<"[Subagent ">> \o Quote(args.label)
                 \o <<" completed]", "\n\n">> \o result,
   SessionKeyOverride |-> args.originChannel \o <<":">> \o args.originChatID]

\* SubagentManager.Spawn: next id, child context, entry in running, and the
\* goroutine starts with the task as its only message
Spawn(a) ==
  /\ counter < MaxTasks
  /\ counter' = counter + 1
  /\ running' = running \cup {counter}
  /\ task' = [task EXCEPT ![counter] =
                [IdleTask EXCEPT !.pc = "loop", !.args = a,
                   !.messages = <<ProviderMsg("user", a.task, <<>>, "")>>]]
  /\ subRet' = [op |-> "Spawn", id |-> counter]
  /\ UNCHANGED <<busVars, sessVars, agentVars, mcpVars, hbVars, laneVars,
                 appendVars, cronVars, storeVars, connVars>>

\* a Cancel that cancels the child context and leaves the entry in place
Cancel_KeepsEntry(id) ==
  /\ IF id \in running
     THEN /\ task' = [task EXCEPT ![id].cancelled = TRUE,
                                  ![id].cancelWon = (task[id].published = 0)]
          /\ subRet' = [op |-> "Cancel", id |-> id, val |-> TRUE]
          /\ UNCHANGED running
     ELSE /\ subRet' = [op |-> "Cancel", id |-> id, val |-> FALSE]
          /\ UNCHANGED <<task, running>>
  /\ UNCHANGED <<counter, busVars, sessVars, agentVars, mcpVars, hbVars,
                 laneVars, appendVars, cronVars, storeVars,
                 connVars>>

\* SubagentManager.Cancel: false for an id without entry, else cancel() of
\* the child context, delete the entry, true
Cancel(id) ==
  /\ IF id \in running
     THEN /\ task' = [task EXCEPT ![id].cancelled = TRUE,
                                  ![id].cancelWon = (task[id].published = 0)]
          /\ running' = running \ {id}
          /\ subRet' = [op |-> "Cancel", id |-> id, val |-> TRUE]
     ELSE /\ subRet' = [op |-> "Cancel", id |-> id, val |-> FALSE]
          /\ UNCHANGED <<task, running>>
  /\ UNCHANGED <<counter, busVars, sessVars, agentVars, mcpVars, hbVars, laneVars,
                 appendVars, cronVars, storeVars, connVars>>

\* sub-agent goroutine: one provider.Chat(childCtx) call; an error or a
\* response without tool calls ends the loop, and with it the loop's locals
\* messages and i
SubChat(k, o) ==
  /\ task[k].pc = "loop"
  /\ task' = [task EXCEPT
       ![k].messages = IF o.err \/ o.ToolCalls = <<>> THEN <<>>
                       ELSE Append(@, ProviderMsg("assistant", o.Content,
                                                  o.ToolCalls, "")),
       ![k].pending = o.ToolCalls,
       ![k].i = IF o.err \/ o.ToolCalls = <<>> THEN 0 ELSE @,
       ![k].result = IF o.err THEN <<"error: ", "provider error">>
                     ELSE IF o.ToolCalls = <<>> THEN <<o.Content>> ELSE @,
       ![k].pc = IF o.err \/ o.ToolCalls = <<>> THEN "publish" ELSE "tools"]
  /\ UNCHANGED <<running, counter, subRet, busVars, sessVars, agentVars, mcpVars, hbVars, laneVars,
                 appendVars, cronVars, storeVars, connVars>>

\* sub-agent goroutine: one isolatedTools.Execute call; after the last call
\* of the last iteration the result is the last assistant content
SubTool(k, o) ==
  /\ task[k].pc = "tools"
  /\ LET tc == Head(task[k].pending)
         last == Tail(task[k].pending) = <<>>
         msgs == Append(task[k].messages,
                        ProviderMsg("tool", Execute(IsolatedTools, tc.Name, o),
                                    <<>>, tc.ID)) IN
     task' = [task EXCEPT
       ![k].messages = IF last /\ ~LoopContinues(task[k].i + 1, SubMaxIter)
                       THEN <<>> ELSE msgs,
       ![k].pending = Tail(@),
       ![k].result = IF last /\ task[k].i = SubMaxIter - 1
                     THEN <<LastAssistant(msgs, Len(msgs)).Content>> ELSE @,
       ![k].i = IF ~last THEN @
                ELSE IF LoopContinues(task[k].i + 1, SubMaxIter) THEN @ + 1
                ELSE 0,
       ![k].pc = IF ~last THEN "tools"
                 ELSE IF LoopContinues(task[k].i + 1, SubMaxIter) THEN "loop"
                 ELSE "publish"]
  /\ UNCHANGED <<running, counter, subRet, busVars, sessVars, agentVars, mcpVars, hbVars, laneVars,
                 appendVars, cronVars, storeVars, connVars>>

\* sub-agent goroutine: m.bus.PublishInbound(completion); blocks while the
\* inbound buffer is full
SubPublish(k) ==
  /\ task[k].pc = "publish"
  /\ Len(inbound) < BusCap
  /\ inbound' = Append(inbound, CompletionMessage(task[k].args, task[k].result))
  /\ task' = [task EXCEPT ![k].published = @ + 1, ![k].pc = "cleanup"]
  /\ UNCHANGED <<running, counter, subRet, outbound, ctxDone, runPc, dispPc,
                 sessVars, agentVars, mcpVars, hbVars, laneVars,
                 appendVars, cronVars, storeVars, connVars>>

\* sub-agent goroutine: the deferred delete(m.running, taskID)
SubCleanup(k) ==
  /\ task[k].pc = "cleanup"
  /\ running' = running \ {k}
  /\ task' = [task EXCEPT ![k].pc = "done"]
  /\ UNCHANGED <<counter, subRet, busVars, sessVars, agentVars, mcpVars, hbVars, laneVars,
                 appendVars, cronVars, storeVars, connVars>>

InitSub ==
  /\ running = {}
  /\ counter = 0
  /\ task = [k \in TaskIds |-> IdleTask]
  /\ subRet = [op |-> "NewSubagentManager"]

NextSub ==
  \/ \E a \in SpawnArgs : Spawn(a)
  \/ \E id \in TaskIds : Cancel(id)
  \/ \E k \in TaskIds, o \in SubChatOutcomes : SubChat(k, o)
  \/ \E k \in TaskIds : SubTool(k, [err |-> FALSE, text |-> "out"])
  \/ \E k \in TaskIds : SubPublish(k)
  \/ \E k \in TaskIds : SubCleanup(k)
  \/ RunConsume

\* the sub-agents and the consumer of the inbound lane under a root ctx
\* that gets cancelled
NextShutdown ==
  \/ \E a \in SpawnArgs : Spawn(a)
  \/ \E k \in TaskIds, o \in SubChatOutcomes : SubChat(k, o)
  \/ \E k \in TaskIds : SubTool(k, [err |-> FALSE, text |-> "out"])
  \/ \E k \in TaskIds : SubPublish(k)
  \/ \E k \in TaskIds : SubCleanup(k)
  \/ CancelCtx
  \/ RunConsume
  \/ RunReturn
  \/ DispatchReturn

\* -------------------------------------------------------------- MCP client
Calls == 1..MaxCalls

IdleCall == [pc |-> "idle", id |-> 0, respCh |-> <<>>, result |-> Nil]

\* a sendRequest that takes the id 1 whatever the counter says
SendRequest_FixedID(c) ==
  /\ call[c].pc = "idle"
  /\ client' = [client EXCEPT !.reqID = @ + 1, !.pending = @ \cup {1}]
  /\ call' = [call EXCEPT ![c].pc = "write", ![c].id = 1]
  /\ UNCHANGED <<server, reader, busVars, sessVars, agentVars, subVars, hbVars, laneVars,
                 appendVars, cronVars, storeVars, connVars>>

\* sendRequest up to the registration: id := c.reqID.Add(1), a reply
\* channel of capacity 1, c.pending[id] = respCh
SendRequest(c) ==
  /\ call[c].pc = "idle"
  /\ client' = [client EXCEPT !.reqID = @ + 1,
                              !.pending = @ \cup {client.reqID + 1}]
  /\ call' = [call EXCEPT ![c].pc = "write", ![c].id = client.reqID + 1]
  /\ UNCHANGED <<server, reader, busVars, sessVars, agentVars, subVars, hbVars, laneVars,
                 appendVars, cronVars, storeVars, connVars>>

\* sendRequest: c.stdin.Write succeeds and the server gets the request
WriteRequest(c) ==
  /\ call[c].pc = "write"
  /\ client.stdinOpen /\ server.alive
  /\ server' = [server EXCEPT !.inbox = @ \cup {call[c].id}]
  /\ call' = [call EXCEPT ![c].pc = "wait"]
  /\ UNCHANGED <<client, reader, busVars, sessVars, agentVars, subVars, hbVars, laneVars,
                 appendVars, cronVars, storeVars, connVars>>

\* sendRequest: c.stdin.Write fails (stdin closed or the process is gone);
\* the pending entry is deleted and the error returned
WriteFails(c) ==
  /\ call[c].pc = "write"
  /\ ~client.stdinOpen \/ ~server.alive
  /\ client' = [client EXCEPT !.pending = @ \ {call[c].id}]
  /\ call' = [call EXCEPT ![c].pc = "returned",
                          ![c].result = [err |-> "failed to write request"]]
  /\ UNCHANGED <<server, reader, busVars, sessVars, agentVars, subVars, hbVars, laneVars,
                 appendVars, cronVars, storeVars, connVars>>

\* the server answers one request with a result or a JSON-RPC error object,
\* one line on its stdout
ServerReply(id, isError) ==
  /\ server.alive
  /\ id \in server.inbox
  /\ server' = [server EXCEPT !.inbox = @ \ {id},
                              !.stdout = Append(@, [ID |-> id, Error |-> isError])]
  /\ UNCHANGED <<client, reader, call, busVars, sessVars, agentVars, subVars, hbVars, laneVars,
                 appendVars, cronVars, storeVars, connVars>>

\* the sub-process exits by itself
ServerExits ==
  /\ server.alive
  /\ server' = [server EXCEPT !.alive = FALSE, !.inbox = {}]
  /\ UNCHANGED <<client, reader, call, busVars, sessVars, agentVars, subVars, hbVars, laneVars,
                 appendVars, cronVars, storeVars, connVars>>

\* readLoop: scan one line, look its id up in pending and delete the entry
ReadLine ==
  /\ reader.pc = "scan"
  /\ server.stdout # <<>>
  /\ server' = [server EXCEPT !.stdout = Tail(@)]
  /\ LET resp == Head(server.stdout) IN
     IF resp.ID \in client.pending
     THEN /\ client' = [client EXCEPT !.pending = @ \ {resp.ID}]
          /\ reader' = [pc |-> "send", resp |-> resp]
     ELSE UNCHANGED <<client, reader>>
  /\ UNCHANGED <<call, busVars, sessVars, agentVars, subVars, hbVars, laneVars,
                 appendVars, cronVars, storeVars, connVars>>

\* a lookup that hands out the reply channel of any call that is waiting
PendingChannel_AnyWaiting(c, id) == call[c].pc = "wait"

\* ch := c.pending[resp.ID]: the channel call c registered under its own id
PendingChannel(c, id) == call[c].id = id

\* readLoop: select case ch <- resp
ReaderSends ==
  /\ reader.pc = "send"
  /\ \E c \in Calls :
       /\ PendingChannel(c, reader.resp.ID)
       /\ Len(call[c].respCh) < 1
       /\ call' = [call EXCEPT ![c].respCh = Append(@, reader.resp)]
  /\ reader' = [pc |-> "scan", resp |-> Nil]
  /\ UNCHANGED <<client, server, busVars, sessVars, agentVars, subVars, hbVars, laneVars,
                 appendVars, cronVars, storeVars, connVars>>

\* readLoop: select case <-c.done: return
ReaderSeesDone ==
  /\ reader.pc = "send"
  /\ client.done
  /\ reader' = [pc |-> "exited", resp |-> Nil]
  /\ UNCHANGED <<client, server, call, busVars, sessVars, agentVars, subVars, hbVars, laneVars,
                 appendVars, cronVars, storeVars, connVars>>

\* readLoop: scanner.Scan() returns false, stdout is at its end
ReaderExits ==
  /\ reader.pc = "scan"
  /\ ~server.alive /\ server.stdout = <<>>
  /\ reader' = [pc |-> "exited", resp |-> Nil]
  /\ UNCHANGED <<client, server, call, busVars, sessVars, agentVars, subVars, hbVars, laneVars,
                 appendVars, cronVars, storeVars, connVars>>

\* sendRequest: select case resp := <-respCh: the result or the protocol
\* error is returned
ReceiveReply(c) ==
  /\ call[c].pc = "wait"
  /\ call[c].respCh # <<>>
  /\ call' = [call EXCEPT
       ![c].respCh = Tail(@),
       ![c].pc = "returned",
       ![c].result = IF Head(call[c].respCh).Error
                     THEN [err |-> "JSON-RPC error", ID |-> Head(call[c].respCh).ID]
                     ELSE [err |-> "", ID |-> Head(call[c].respCh).ID]]
  /\ UNCHANGED <<client, server, reader, busVars, sessVars, agentVars, subVars, hbVars, laneVars,
                 appendVars, cronVars, storeVars, connVars>>

\* sendRequest: select case <-ctx.Done() (cancelled or timed out): delete
\* the pending entry, return ctx.Err()
CallCtxDone(c) ==
  /\ call[c].pc = "wait"
  /\ client' = [client EXCEPT !.pending = @ \ {call[c].id}]
  /\ call' = [call EXCEPT ![c].pc = "returned", ![c].result = [err |-> "ctx"]]
  /\ UNCHANGED <<server, reader, busVars, sessVars, agentVars, subVars, hbVars, laneVars,
                 appendVars, cronVars, storeVars, connVars>>

\* sendRequest: select case <-c.done: return "MCP client closed"
CallSeesDone(c) ==
  /\ call[c].pc = "wait"
  /\ client.done
  /\ call' = [call EXCEPT ![c].pc = "returned",
                          ![c].result = [err |-> "MCP client closed"]]
  /\ UNCHANGED <<client, server, reader, busVars, sessVars, agentVars, subVars, hbVars, laneVars,
                 appendVars, cronVars, storeVars, connVars>>

\* MCPClient.Close: close(c.done), close stdin, kill and reap the process
Close ==
  /\ ~client.done
  /\ client' = [client EXCEPT !.done = TRUE, !.stdinOpen = FALSE]
  /\ server' = [server EXCEPT !.alive = FALSE, !.inbox = {}]
  /\ UNCHANGED <<reader, call, busVars, sessVars, agentVars, subVars, hbVars, laneVars,
                 appendVars, cronVars, storeVars, connVars>>

InitMCP ==
  /\ client = [reqID |-> 0, pending |-> {}, done |-> FALSE, stdinOpen |-> TRUE]
  /\ server = [alive |-> TRUE, inbox |-> {}, stdout |-> <<>>]
  /\ reader = [pc |-> "scan", resp |-> Nil]
  /\ call = [c \in Calls |-> IdleCall]

NextMCP ==
  \/ \E c \in Calls : SendRequest(c)
  \/ \E c \in Calls : WriteRequest(c)
  \/ \E c \in Calls : WriteFails(c)
  \/ \E id \in 1..MaxCalls, e \in BOOLEAN : ServerReply(id, e)
  \/ ServerExits
  \/ ReadLine
  \/ ReaderSends
  \/ ReaderSeesDone
  \/ ReaderExits
  \/ \E c \in Calls : ReceiveReply(c)
  \/ \E c \in Calls : CallCtxDone(c)
  \/ \E c \in Calls : CallSeesDone(c)
  \/ Close

\* the server writes a response line nobody asked for: a second answer, an
\* answer to a request that was given up, or an id it made up
ServerWrites(id, isError) ==
  /\ server.alive
  /\ Len(server.stdout) < MaxCalls
  /\ server' = [server EXCEPT
                  !.stdout = Append(@, [ID |-> id, Error |-> isError])]
  /\ UNCHANGED <<client, reader, call, busVars, sessVars, agentVars, subVars,
                 hbVars, laneVars, appendVars, cronVars, storeVars,
                 connVars>>

\* the client with a server that answers in any order and also writes
\* responses with ids of its own choice
NextMCPAnyReply ==
  \/ NextMCP
  \/ \E id \in 1..(MaxCalls + 1) : ServerWrites(id, FALSE)

\* ------------------------------------------------------ MCP tool registration
\* names of MCP servers in the configuration, and names of the tools a
\* server may report, character runs kept apart where an underscore falls
ServerNames == { <<"a">>, <<"a", "_", "b">> }
ToolLists ==
  { <<>>, << <<"c">> >>, << <<"b", "_", "c">> >>,
    << <<"c">>, <<"b", "_", "c">> >> }

\* a wrapper name that numbers the servers instead of naming them
WrapperName_Numbered(serverName, toolName) ==
  <<"mcp_", ToString(Len(serverName)), "_">> \o toolName

\* MCPToolWrapper.Name: fmt.Sprintf("mcp_%s_%s", serverName, toolDef.Name)
WrapperName(serverName, toolName) ==
  <<"mcp_">> \o serverName \o <<"_">> \o toolName

\* the MCPToolWrapper built for a tool of a server
Wrapper(serverName, toolName) ==
  [kind |-> "mcp", serverName |-> serverName, toolDef |-> toolName]

\* Registry.Register: r.tools[t.Name()] = t
Register(reg, name, t) == Put(reg, name, t)

\* the servers of the configuration
Configured == DOMAIN conn

\* the goroutine of a server: NewMCPClient and ListTools succeed and the
\* tools are known, or one of them fails and the error goes to errCh
Connect(srv, ok) ==
  /\ connRet = Nil
  /\ srv \in Configured
  /\ conn[srv].pc = "start"
  /\ conn' = [conn EXCEPT ![srv].pc = IF ok THEN "register" ELSE "failed"]
  /\ UNCHANGED <<connRet, sessVars, busVars, agentVars, subVars, mcpVars,
                 hbVars, laneVars, appendVars, cronVars, storeVars>>

\* the goroutine of a server: registry.Register(wrapper) for its next tool
RegisterNext(srv) ==
  /\ srv \in Configured
  /\ conn[srv].pc = "register"
  /\ conn[srv].next <= Len(conn[srv].tools)
  /\ LET toolName == conn[srv].tools[conn[srv].next] IN
     registry' = Register(registry, WrapperName(srv, toolName),
                          Wrapper(srv, toolName))
  /\ conn' = [conn EXCEPT ![srv].next = @ + 1]
  /\ UNCHANGED <<connRet, maxIter, turn, sessVars, busVars, subVars, mcpVars,
                 hbVars, laneVars, appendVars, cronVars, storeVars>>

\* the goroutine of a server: all tools registered, the client is appended
\* to clients and the goroutine ends
ToolsRegistered(srv) ==
  /\ srv \in Configured
  /\ conn[srv].pc = "register"
  /\ conn[srv].next > Len(conn[srv].tools)
  /\ conn' = [conn EXCEPT ![srv].pc = "done"]
  /\ UNCHANGED <<connRet, sessVars, busVars, agentVars, subVars, mcpVars,
                 hbVars, laneVars, appendVars, cronVars, storeVars>>

\* ConnectMCPServers after wg.Wait(): an error if any goroutine reported
\* one, else the clients
ConnectReturn ==
  /\ connRet = Nil
  /\ \A srv \in Configured : conn[srv].pc \in {"done", "failed"}
  /\ connRet' = [op |-> "ConnectMCPServers",
                 err |-> \E srv \in Configured : conn[srv].pc = "failed"]
  /\ UNCHANGED <<conn, sessVars, busVars, agentVars, subVars, mcpVars,
                 hbVars, laneVars, appendVars, cronVars, storeVars>>

\* ConnectMCPServers has not been called
InitConn ==
  /\ conn = << >>
  /\ connRet = Nil

\* the tools registered before the MCP servers are connected
LocalTools == [n \in { <<"echo">> } |-> [kind |-> "local"]]

\* ConnectMCPServers is called on a registry of local tools with a
\* configuration of one or two servers, each with the tools it will report
InitConnecting ==
  /\ conn \in UNION { [names -> [pc : {"start"}, next : {1}, tools : ToolLists]] :
                        names \in (SUBSET ServerNames) \ {{}} }
  /\ connRet = Nil
  /\ registry = LocalTools
  /\ maxIter = NewAgentLoop(0)
  /\ turn = [t \in Turns |-> IdleTurn]

NextConnect ==
  \/ \E srv \in ServerNames, ok \in BOOLEAN : Connect(srv, ok)
  \/ \E srv \in ServerNames : RegisterNext(srv)
  \/ \E srv \in ServerNames : ToolsRegistered(srv)
  \/ ConnectReturn

\* --------------------------------------------------------------- heartbeat
Tickers == 1..MaxTickers

\* the ticker goroutines that have been started and have not returned
LiveTickers == { g \in Tickers : ticker[g] \in {"select", "tick"} }

\* what Service.tick meets: HEARTBEAT.md missing or unreadable, a failed
\* provider call, a response without tool call, arguments that do not parse,
\* or a decision with action skip, run or anything else
TickOutcomes == { "nofile", "readerror", "chaterror", "notoolcall",
                  "badjson", "skip", "run", "other" }

\* Service.tick: onExecute is called on the decision run only
tick(o) == [outcome |-> o, onExecute |-> (o = "run")]

\* Service.Start: nothing if running, else running = true and a new ticker
\* goroutine
Start ==
  /\ ~hb.panicked
  /\ IF hb.running
     THEN UNCHANGED <<hb, ticker>>
     ELSE /\ \E g \in Tickers :
               /\ ticker[g] = "none"
               /\ \A h \in Tickers : ticker[h] = "none" => g <= h
               /\ ticker' = [ticker EXCEPT ![g] = "select"]
          /\ hb' = [hb EXCEPT !.running = TRUE, !.lastCall = "Start"]
  /\ UNCHANGED <<busVars, sessVars, agentVars, subVars, mcpVars, laneVars,
                 appendVars, cronVars, storeVars, connVars>>

\* Service.Stop: nothing if not running, else running = false and
\* close(s.stopCh), which panics on a channel that is already closed
Stop ==
  /\ ~hb.panicked
  /\ IF ~hb.running
     THEN UNCHANGED hb
     ELSE hb' = [hb EXCEPT !.running = FALSE,
                           !.stopClosed = TRUE,
                           !.panicked = hb.stopClosed,
                           !.lastCall = "Stop"]
  /\ UNCHANGED <<ticker, busVars, sessVars, agentVars, subVars, mcpVars, laneVars,
                 appendVars, cronVars, storeVars, connVars>>

\* cancel() of the ctx handed to Start
CancelHeartbeatCtx ==
  /\ ~hb.panicked
  /\ ~hb.ctxDone
  /\ hb' = [hb EXCEPT !.ctxDone = TRUE]
  /\ UNCHANGED <<ticker, busVars, sessVars, agentVars, subVars, mcpVars, laneVars,
                 appendVars, cronVars, storeVars, connVars>>

\* ticker goroutine: case <-ticker.C: s.tick(ctx) begins
TickerFires(g) ==
  /\ ~hb.panicked
  /\ ticker[g] = "select"
  /\ ticker' = [ticker EXCEPT ![g] = "tick"]
  /\ UNCHANGED <<hb, busVars, sessVars, agentVars, subVars, mcpVars, laneVars,
                 appendVars, cronVars, storeVars, connVars>>

\* ticker goroutine: s.tick(ctx) returns; onExecute ran on the decision run
TickReturns(g, o) ==
  /\ ~hb.panicked
  /\ ticker[g] = "tick"
  /\ ticker' = [ticker EXCEPT ![g] = "select"]
  /\ hb' = [hb EXCEPT !.lastTick = tick(o).outcome,
                      !.executed = @ \/ tick(o).onExecute]
  /\ UNCHANGED <<busVars, sessVars, agentVars, subVars, mcpVars, laneVars,
                 appendVars, cronVars, storeVars, connVars>>

\* Service.TriggerNow: s.tick(ctx) on the caller's goroutine
TriggerNow(o) ==
  /\ ~hb.panicked
  /\ hb' = [hb EXCEPT !.lastTick = tick(o).outcome,
                      !.executed = @ \/ tick(o).onExecute]
  /\ UNCHANGED <<ticker, busVars, sessVars, agentVars, subVars, mcpVars, laneVars,
                 appendVars, cronVars, storeVars, connVars>>

\* ticker goroutine: case <-s.stopCh or case <-ctx.Done(): return
TickerReturns(g) ==
  /\ ~hb.panicked
  /\ ticker[g] = "select"
  /\ hb.stopClosed \/ hb.ctxDone
  /\ ticker' = [ticker EXCEPT ![g] = "returned"]
  /\ UNCHANGED <<hb, busVars, sessVars, agentVars, subVars, mcpVars, laneVars,
                 appendVars, cronVars, storeVars, connVars>>

InitHeartbeat ==
  /\ hb = [running |-> FALSE, stopClosed |-> FALSE, ctxDone |-> FALSE,
           panicked |-> FALSE, executed |-> FALSE, lastTick |-> "none",
           lastCall |-> "NewService"]
  /\ ticker = [g \in Tickers |-> "none"]

NextHeartbeat ==
  \/ Start
  \/ Stop
  \/ CancelHeartbeatCtx
  \/ \E g \in Tickers : TickerFires(g)
  \/ \E g \in Tickers, o \in TickOutcomes : TickReturns(g, o)
  \/ \E g \in Tickers : TickerReturns(g)
  \/ \E o \in TickOutcomes : TriggerNow(o)

\* ------------------------------------------------------------ cron service
\* a schedule expression is a sequence of tokens: a run of digits with an
\* optional sign (an integer) or any other run of characters
Num(n) == [num |-> n]
Sym(t) == [sym |-> t]
IsNum(tok) == "num" \in DOMAIN tok

\* CronSchedule values
AtSchedule(h, m) == [Type |-> "at", Expression |-> <<Num(h), Sym(":"), Num(m)>>]
EverySchedule(d) == [Type |-> "every", Expression |-> <<Sym(d)>>]
CronSchedule(e) == [Type |-> "cron", Expression |-> <<Sym(e)>>]

\* fmt.Sscanf(expr, "%d:%d", &h, &m): an integer, a colon, an integer;
\* whatever follows is not read
Sscanf(expr) ==
  IF /\ Len(expr) >= 3
     /\ IsNum(expr[1]) /\ expr[2] = Sym(":") /\ IsNum(expr[3])
  THEN [err |-> FALSE, h |-> expr[1].num, m |-> expr[3].num]
  ELSE [err |-> TRUE, h |-> 0, m |-> 0]

\* time.ParseDuration and Duration.String on the durations in use
Durations == [d \in {"1s", "30m"} |-> IF d = "30m" THEN "30m0s" ELSE d]
ParseDuration(expr) ==
  IF Len(expr) = 1 /\ ~IsNum(expr[1]) /\ expr[1].sym \in DOMAIN Durations
  THEN [err |-> FALSE, d |-> Durations[expr[1].sym]]
  ELSE [err |-> TRUE, d |-> ""]

\* a range check that lets the hour 24 through
InRange_Hour24(h, m) == ~(h < 0 \/ h > 24 \/ m < 0 \/ m > 59)

\* the negation of h < 0 || h > 23 || m < 0 || m > 59
InRange(h, m) == ~(h < 0 \/ h > 23 \/ m < 0 \/ m > 59)

\* toCronExpr: the robfig/cron expression of a schedule, or an error
toCronExpr(schedule) ==
  CASE schedule.Type = "cron" ->
         [err |-> FALSE, expr |-> schedule.Expression]
    [] schedule.Type = "every" ->
         IF ParseDuration(schedule.Expression).err
         THEN [err |-> TRUE, expr |-> <<>>]
         ELSE [err |-> FALSE,
               expr |-> <<Sym("@every "),
                          Sym(ParseDuration(schedule.Expression).d)>>]
    [] schedule.Type = "at" ->
         LET t == Sscanf(schedule.Expression) IN
         IF t.err THEN [err |-> TRUE, expr |-> <<>>]
         ELSE IF ~InRange(t.h, t.m) THEN [err |-> TRUE, expr |-> <<>>]
         ELSE [err |-> FALSE,
               expr |-> <<Num(t.m), Sym(" "), Num(t.h), Sym(" * * *")>>]
    [] OTHER -> [err |-> TRUE, expr |-> <<>>]

\* robfig/cron's standard parser behind scheduler.AddFunc: "@every <d>",
\* minute and hour fields within their ranges, or a known five-field text
ParseStandard(expr) ==
  \/ Len(expr) = 2 /\ expr[1] = Sym("@every ")
  \/ /\ Len(expr) = 4 /\ IsNum(expr[1]) /\ IsNum(expr[3])
     /\ expr[1].num \in 0..59 /\ expr[3].num \in 0..23
  \/ expr = <<Sym("0 * * * *")>>

\* fmt.Sprintf("cron_%d", n)
CronID(n) == <<"cron_", ToString(n)>>
CronIDs == {CronID(n) : n \in 0..(MaxJobs - 1)}

\* cron.NewService: empty maps, a scheduler that is not running
NewCronService ==
  [counter |-> 0, nextEntry |-> 1, jobs |-> << >>, jobDefs |-> << >>,
   entries |-> << >>, started |-> FALSE]

\* map deletion delete(m, k)
Drop(m, k) == [x \in DOMAIN m \ {k} |-> m[x]]

\* a job function that publishes without metadata
CronMessage_NoMetadata(fn) ==
  [Channel |-> <<"system">>, SenderID |-> "", ChatID |-> <<>>,
   Content |-> fn.message, SessionKeyOverride |-> fn.sessionKey,
   Metadata |-> << >>]

\* the inbound message the function registered by AddJob publishes, from
\* the variables message, sessionKey and id it closes over
CronMessage(fn) ==
  [Channel |-> <<"system">>, SenderID |-> "", ChatID |-> <<>>,
   Content |-> fn.message, SessionKeyOverride |-> fn.sessionKey,
   Metadata |-> [source |-> "cron", job_id |-> fn.id]]

\* Service.AddJob on service c, up to the store write: the service
\* afterwards, the id and the error returned
AddJobTo(c, schedule, message, sessionKey) ==
  LET r == toCronExpr(schedule)
      id == CronID(c.counter) IN
  IF r.err THEN [svc |-> c, id |-> <<>>, err |-> "invalid schedule"]
  ELSE IF ~ParseStandard(r.expr)
  THEN [svc |-> [c EXCEPT !.counter = @ + 1], id |-> <<>>,
        err |-> "failed to register cron job"]
  ELSE [svc |-> [c EXCEPT
                  !.counter = @ + 1,
                  !.nextEntry = @ + 1,
                  !.entries = Put(@, c.nextEntry,
                                  [spec |-> r.expr,
                                   fn |-> [message |-> message,
                                           sessionKey |-> sessionKey,
                                           id |-> id]]),
                  !.jobs = Put(@, id, c.nextEntry),
                  !.jobDefs = Put(@, id,
                                  [ID |-> id, Schedule |-> schedule,
                                   Message |-> message,
                                   SessionKey |-> sessionKey,
                                   CreatedAt |-> Now])],
        id |-> id, err |-> ""]

\* the file at storePath: absent, or the jobs of the CronStore written last
NoStore == [exists |-> FALSE, jobs |-> <<>>]
StoreFile(js) == [exists |-> TRUE, jobs |-> js]

\* json.Marshal of a CronJob: an object keyed by the json tags
MarshalJob(job) ==
  [id |-> job.ID,
   schedule |-> [type |-> job.Schedule.Type,
                 expression |-> job.Schedule.Expression],
   message |-> job.Message, sessionKey |-> job.SessionKey,
   createdAt |-> job.CreatedAt]

\* json.Unmarshal of such an object into a CronJob
UnmarshalJob(obj) ==
  [ID |-> obj.id,
   Schedule |-> [Type |-> obj.schedule.type,
                 Expression |-> obj.schedule.expression],
   Message |-> obj.message, SessionKey |-> obj.sessionKey,
   CreatedAt |-> obj.createdAt]

\* a store write that leaves a file without jobs
saveToDisk_Empty(defs) == { StoreFile(<<>>) }

\* Service.saveToDisk: the jobs of jobDefs in the order the map iteration
\* yields them, which is any order
saveToDisk(defs) ==
  { StoreFile([i \in 1..Cardinality(DOMAIN defs) |-> MarshalJob(defs[f[i]])]) :
      f \in { g \in [1..Cardinality(DOMAIN defs) -> DOMAIN defs] :
                \A i, j \in 1..Cardinality(DOMAIN defs) :
                  i # j => g[i] # g[j] } }

\* LoadFromDisk is not in progress on this Service
Serving == loader.pc \in {"none", "done"}
NotLoading == [pc |-> "none", todo |-> <<>>, listed |-> {}]

\* Service.AddJob called through the cron tool
AddJob(schedule, message, sessionKey) ==
  /\ Serving
  /\ cron.counter < MaxJobs
  /\ LET r == AddJobTo(cron, schedule, message, sessionKey) IN
     /\ cron' = r.svc
     /\ cronRet' = [op |-> "AddJob", schedule |-> schedule, id |-> r.id,
                    err |-> r.err]
     /\ IF r.err = "" THEN cronStore' \in saveToDisk(r.svc.jobDefs)
        ELSE UNCHANGED cronStore
  /\ loader' = NotLoading
  /\ UNCHANGED <<firing, sessVars, busVars, agentVars, subVars, mcpVars,
                 hbVars, laneVars, appendVars, storeVars,
                 connVars>>

\* Service.RemoveJob: an error for an id without entry, else the entry
\* leaves the scheduler and both maps, and the store is rewritten
RemoveJob(id) ==
  /\ Serving
  /\ IF id \notin DOMAIN cron.jobs
     THEN /\ cronRet' = [op |-> "RemoveJob", id |-> id, err |-> "not found"]
          /\ UNCHANGED <<cron, cronStore>>
     ELSE /\ cron' = [cron EXCEPT !.entries = Drop(@, cron.jobs[id]),
                                  !.jobs = Drop(@, id),
                                  !.jobDefs = Drop(@, id)]
          /\ cronStore' \in saveToDisk(cron'.jobDefs)
          /\ cronRet' = [op |-> "RemoveJob", id |-> id, err |-> ""]
  /\ loader' = NotLoading
  /\ UNCHANGED <<firing, sessVars, busVars, agentVars, subVars, mcpVars,
                 hbVars, laneVars, appendVars, storeVars,
                 connVars>>

\* Service.ListJobs: the jobs of jobDefs, in no particular order
ListJobs ==
  /\ Serving
  /\ cronRet' = [op |-> "ListJobs",
                 val |-> {cron.jobDefs[id] : id \in DOMAIN cron.jobDefs}]
  /\ UNCHANGED <<cron, cronStore, firing, loader, sessVars, busVars,
                 agentVars, subVars, mcpVars, hbVars, laneVars, appendVars,
                 storeVars, connVars>>

\* Service.Start / Service.Stop: the scheduler runs / no longer starts jobs
StartCron ==
  /\ loader.pc # "loading"
  /\ ~cron.started
  /\ cron' = [cron EXCEPT !.started = TRUE]
  /\ UNCHANGED <<cronStore, cronRet, firing, loader, sessVars, busVars,
                 agentVars, subVars, mcpVars, hbVars, laneVars, appendVars,
                 storeVars, connVars>>

StopCron ==
  /\ cron.started
  /\ cron' = [cron EXCEPT !.started = FALSE]
  /\ UNCHANGED <<cronStore, cronRet, firing, loader, sessVars, busVars,
                 agentVars, subVars, mcpVars, hbVars, laneVars, appendVars,
                 storeVars, connVars>>

\* the goroutine slot the next job function runs in
FreeSlot == CHOOSE g \in 1..MaxFirings :
              /\ firing[g] = Nil
              /\ \A h \in 1..MaxFirings : firing[h] = Nil => g <= h

\* the job whose scheduler entry is e
JobOf(c, e) == CHOOSE id \in DOMAIN c.jobs : c.jobs[id] = e

\* the running scheduler reaches a trigger time of entry e and starts its
\* function in a goroutine
CronFire(e) ==
  /\ cron.started
  /\ e \in DOMAIN cron.entries
  /\ \E g \in 1..MaxFirings : firing[g] = Nil
  /\ firing' = [firing EXCEPT ![FreeSlot] =
                  [fn |-> cron.entries[e].fn,
                   job |-> cron.jobDefs[JobOf(cron, e)]]]
  /\ UNCHANGED <<cron, cronStore, cronRet, loader, sessVars, busVars,
                 agentVars, subVars, mcpVars, hbVars, laneVars, appendVars,
                 storeVars, connVars>>

\* the job function: s.bus.PublishInbound(...), which waits while the
\* inbound buffer is full; the function returns
CronPublish(g) ==
  /\ firing[g] # Nil
  /\ Len(inbound) < BusCap
  /\ inbound' = Append(inbound, CronMessage(firing[g].fn))
  /\ firing' = [firing EXCEPT ![g] = Nil]
  /\ UNCHANGED <<cron, cronStore, cronRet, loader, outbound, ctxDone, runPc,
                 dispPc, sessVars, agentVars, subVars, mcpVars, hbVars,
                 laneVars, appendVars, storeVars, connVars>>

\* the process ends and a new one builds a Service on the same storePath;
\* listed is what ListJobs returned on the old one
CronRestart ==
  /\ Serving
  /\ cron' = NewCronService
  /\ firing' = [g \in 1..MaxFirings |-> Nil]
  /\ loader' = [pc |-> "fresh", todo |-> <<>>,
                listed |-> {cron.jobDefs[id] : id \in DOMAIN cron.jobDefs}]
  /\ cronRet' = [op |-> "NewService"]
  /\ UNCHANGED <<cronStore, sessVars, busVars, agentVars, subVars, mcpVars,
                 hbVars, laneVars, appendVars, storeVars,
                 connVars>>

\* LoadFromDisk: os.ReadFile and json.Unmarshal of the store; nothing to
\* do when there is no file
LoadRead ==
  /\ loader.pc = "fresh"
  /\ loader' = [loader EXCEPT
                  !.pc = IF cronStore.jobs = <<>> THEN "done" ELSE "loading",
                  !.todo = [i \in 1..Len(cronStore.jobs) |->
                              UnmarshalJob(cronStore.jobs[i])]]
  /\ UNCHANGED <<cron, cronStore, cronRet, firing, sessVars, busVars,
                 agentVars, subVars, mcpVars, hbVars, laneVars, appendVars,
                 storeVars, connVars>>

\* LoadFromDisk: s.AddJob for the next stored job; a failure is logged and
\* the job skipped
LoadAdd ==
  /\ loader.pc = "loading"
  /\ LET job == Head(loader.todo)
         r == AddJobTo(cron, job.Schedule, job.Message, job.SessionKey) IN
     /\ cron' = r.svc
     /\ IF r.err = "" THEN cronStore' \in saveToDisk(r.svc.jobDefs)
        ELSE UNCHANGED cronStore
  /\ loader' = [loader EXCEPT
                  !.todo = Tail(@),
                  !.pc = IF Tail(loader.todo) = <<>> THEN "done" ELSE "loading"]
  /\ UNCHANGED <<cronRet, firing, sessVars, busVars, agentVars, subVars,
                 mcpVars, hbVars, laneVars, appendVars,
                 storeVars, connVars>>

\* a new Service on a storePath without file
InitCron ==
  /\ cron = NewCronService
  /\ cronStore = NoStore
  /\ cronRet = [op |-> "NewService"]
  /\ firing = [g \in 1..MaxFirings |-> Nil]
  /\ loader = NotLoading

\* the hours and minutes tried in at-schedules: the ends of the ranges and
\* their neighbours
HoursTried == {-1, 0, 23, 24, 25}
MinutesTried == {-1, 0, 59, 60}

\* schedules handed to AddJob by the cron tool
SchedulesTried ==
  {AtSchedule(h, m) : h \in HoursTried, m \in MinutesTried}
    \cup {[Type |-> "at", Expression |-> <<Sym("badtime")>>],
          EverySchedule("30m"), EverySchedule("notaduration"),
          CronSchedule("0 * * * *"), CronSchedule("not a cron line")}

\* the cron tool adding, removing and listing jobs, and the process
\* restarting with LoadFromDisk on the same store
NextCronTool ==
  \/ \E sc \in SchedulesTried : AddJob(sc, "ping", <<"test-session">>)
  \/ \E id \in CronIDs : RemoveJob(id)
  \/ ListJobs
  \/ CronRestart
  \/ LoadRead
  \/ LoadAdd

\* the jobs that run: schedule, message and session key
JobsRun ==
  { <<EverySchedule("1s"), "ping", <<"test-session">> >>,
    <<AtSchedule(14, 30), "pong", <<"cron-session">> >> }

\* a Service with jobs that fire and an agent loop that consumes the
\* inbound lane
NextCron ==
  \/ \E j \in JobsRun : AddJob(j[1], j[2], j[3])
  \/ \E id \in CronIDs : RemoveJob(id)
  \/ StartCron
  \/ StopCron
  \/ \E e \in 1..MaxJobs : CronFire(e)
  \/ \E g \in 1..MaxFirings : CronPublish(g)
  \/ RunConsume

InitBus ==
  /\ inbound = <<>>
  /\ outbound = <<>>
  /\ ctxDone = FALSE
  /\ runPc = "running"
  /\ dispPc = "running"

InitAgent ==
  /\ maxIter \in { NewAgentLoop(n) : n \in 1..MaxIterCfg }
  /\ registry = [n \in {"echo"} |-> "echoTool"]
  /\ turn = [t \in Turns |-> IdleTurn]

\* an AgentLoop built without MaxIterations
InitAgentDefault ==
  /\ maxIter = NewAgentLoop(0)
  /\ registry = [n \in {"echo"} |-> "echoTool"]
  /\ turn = [t \in Turns |-> IdleTurn]

NextAgent ==
  \/ \E m \in ExtInbound : PublishInbound(m)
  \/ DispatchOutbound
  \/ RunConsume
  \/ \E m \in {"hi"} : ProcessDirect(m)
  \/ \E t \in Turns : TurnGetOrCreate(t)
  \/ \E t \in Turns : TurnGetHistory(t)
  \/ \E t \in Turns, o \in ChatOutcomes : TurnChat(t, o)
  \/ \E t \in Turns, o \in ToolOutcomes : TurnTool(t, o)
  \/ \E t \in Turns : TurnCeiling(t)
  \/ \E t \in Turns : TurnFail(t)
  \/ \E t \in Turns : TurnAppendUser(t)
  \/ \E t \in Turns : TurnAppendAssistant(t)
  \/ \E t \in Turns : TurnSave(t)
  \/ \E t \in Turns : TurnSaveFails(t)
  \/ \E t \in Turns : TurnPublish(t)

Init ==
  /\ InitSession /\ InitBus /\ InitAgent /\ InitSub /\ InitMCP /\ InitHeartbeat
  /\ InitLanes
  /\ InitAppend /\ InitCron /\ InitStore
  /\ InitConn

\* the components other than the session store and the agent loop, with an
\* empty dataDir and a default AgentLoop
InitDefault ==
  /\ InitSessionEmpty /\ InitBus /\ InitAgentDefault /\ InitSub
  /\ InitMCP /\ InitHeartbeat /\ InitLanes
  /\ InitAppend /\ InitCron /\ InitStore
  /\ InitConn

InitStored ==
  /\ InitSession /\ InitBus /\ InitAgentDefault /\ InitSub
  /\ InitMCP /\ InitHeartbeat /\ InitLanes
  /\ InitAppend /\ InitCron /\ InitStore
  /\ InitConn

SpecSession == InitStored /\ [][NextSession]_vars

\* a new session and the goroutines that append to it
InitConcurrentAppend ==
  /\ InitSessionHeld /\ InitBus /\ InitAgentDefault /\ InitSub
  /\ InitMCP /\ InitHeartbeat /\ InitLanes /\ InitAppend /\ InitCron /\ InitStore
  /\ InitConn

SpecAppend == InitConcurrentAppend /\ [][NextAppend]_vars

\* a new Manager over an empty dataDir, called with the keys of StoreKeys
InitStoreKeys ==
  /\ InitSessionEmpty /\ InitBus /\ InitAgentDefault /\ InitSub
  /\ InitMCP /\ InitHeartbeat /\ InitLanes /\ InitCron /\ InitStore
  /\ InitConn
  /\ sessMu = [k \in StoreKeys |-> 0]
  /\ appender = [g \in Appenders |-> IdleAppender]

SpecStore == InitStoreKeys /\ [][NextStore]_vars

SpecAgent == Init /\ [][NextAgent]_vars

SpecSub == InitDefault /\ [][NextSub]_vars

SpecShutdown == InitDefault /\ [][NextShutdown]_vars

SpecMCP == InitDefault /\ [][NextMCP]_vars

SpecMCPAnyReply == InitDefault /\ [][NextMCPAnyReply]_vars

\* the goroutines of the client always get to run: a sendRequest that can
\* write, receive or see c.done does so, and so does readLoop; nothing
\* obliges the caller to cancel ctx or to call Close, nor the server to
\* answer or to stay alive
FairMCP ==
  /\ \A c \in Calls : /\ WF_vars(WriteRequest(c))
                      /\ WF_vars(WriteFails(c))
                      /\ WF_vars(ReceiveReply(c))
                      /\ WF_vars(CallSeesDone(c))
  /\ WF_vars(ReadLine)
  /\ WF_vars(ReaderSends)
  /\ WF_vars(ReaderSeesDone)
  /\ WF_vars(ReaderExits)

SpecMCPLive == InitDefault /\ [][NextMCP]_vars /\ FairMCP

\* the components at rest and a ConnectMCPServers call about to run
InitConnect ==
  /\ InitSessionEmpty /\ InitBus /\ InitSub /\ InitMCP /\ InitHeartbeat
  /\ InitLanes /\ InitAppend /\ InitCron /\ InitStore
  /\ InitConnecting

SpecConnect == InitConnect /\ [][NextConnect]_vars

\* a bus of its own, built with a bufSize from 1 to LaneBufSize
InitPublishers ==
  /\ InitSessionEmpty /\ InitBus /\ InitAgentDefault /\ InitSub
  /\ InitMCP /\ InitHeartbeat
  /\ \E n \in 1..LaneBufSize : LanesOf(n)
  /\ InitAppend /\ InitCron /\ InitStore
  /\ InitConn

\* publishers and one consumer on the inbound lane
SpecBus == InitPublishers /\ [][NextBus]_vars

\* publishers, subscribers and the dispatcher on the outbound lane
SpecFanOut == InitPublishers /\ [][NextFanOut]_vars

SpecFanOutUnnamed == InitPublishers /\ [][NextFanOutUnnamed]_vars

\* the channel manager on the outbound lane
SpecChannels == InitPublishers /\ [][NextChannels]_vars

\* sub-agents whose completion messages are consumed by Run and answered by
\* processMessage turns
InitDelegation ==
  /\ InitSessionEmpty /\ InitBus /\ InitAgent /\ InitSub
  /\ InitMCP /\ InitHeartbeat /\ InitLanes
  /\ InitAppend /\ InitCron /\ InitStore
  /\ InitConn

NextDelegation ==
  \/ \E a \in SpawnArgs : Spawn(a)
  \/ \E k \in TaskIds, o \in SubChatOutcomes : SubChat(k, o)
  \/ \E k \in TaskIds : SubTool(k, [err |-> FALSE, text |-> "out"])
  \/ \E k \in TaskIds : SubPublish(k)
  \/ \E k \in TaskIds : SubCleanup(k)
  \/ RunConsume
  \/ \E t \in Turns : TurnGetOrCreate(t)
  \/ \E t \in Turns : TurnGetHistory(t)
  \/ \E t \in Turns, o \in ChatOutcomes : TurnChat(t, o)
  \/ \E t \in Turns, o \in ToolOutcomes : TurnTool(t, o)
  \/ \E t \in Turns : TurnCeiling(t)
  \/ \E t \in Turns : TurnFail(t)
  \/ \E t \in Turns : TurnAppendUser(t)
  \/ \E t \in Turns : TurnAppendAssistant(t)
  \/ \E t \in Turns : TurnSave(t)
  \/ \E t \in Turns : TurnPublish(t)

SpecDelegation == InitDelegation /\ [][NextDelegation]_vars

SpecHeartbeat == InitDefault /\ [][NextHeartbeat]_vars

SpecCronTool == InitDefault /\ [][NextCronTool]_vars

SpecCron == InitDefault /\ [][NextCron]_vars

\* ------------------------------------------------------------------ claims
\* the turn has left runToolLoop
LoopReturned(tr) == tr.pc \notin {"idle", "start", "history", "loop", "tools"}

\* C1: if every provider call of a turn returned at least one tool call,
\* runToolLoop made exactly maxIter provider calls and returned, without
\* error, the content of the last response.
C1_IterationCeiling ==
  \A t \in Turns :
    (LoopReturned(turn[t]) /\ turn[t].allTools)
      => /\ turn[t].calls = maxIter
         /\ turn[t].err = "none"
         /\ turn[t].final = turn[t].lastResp

\* a turn ran into the ceiling after two calls and returned empty content
C1_Witness ==
  \E t \in Turns :
    /\ turn[t].pc = "done" /\ turn[t].allTools
    /\ turn[t].calls = 2 /\ maxIter = 2 /\ turn[t].final = ""

\* C2: a turn whose provider call failed appended nothing to the session
\* and did not save it; processMessage published exactly an error message
\* to the channel and chat of the inbound message.
C2_FailedTurnPersistsNothing ==
  \A t \in Turns :
    turn[t].err = "provider chat error"
      => /\ turn[t].appended = 0
         /\ ~turn[t].saved
         /\ (turn[t].pc = "done" /\ turn[t].kind = "bus")
              => /\ Len(turn[t].out) = 1
                 /\ turn[t].out[1].Type = "error"
                 /\ turn[t].out[1].Channel = turn[t].msg.Channel
                 /\ turn[t].out[1].ChatID = turn[t].msg.ChatID

\* a processMessage turn failed at its second provider call, after the
\* tools of the first iteration had run, and another one at ProcessDirect
C2_Witness ==
  /\ \E t \in Turns :
      /\ turn[t].pc = "done" /\ turn[t].kind = "bus"
      /\ turn[t].err = "provider chat error" /\ turn[t].calls = 2
  /\ \E t \in Turns :
      /\ turn[t].pc = "done" /\ turn[t].kind = "direct"
      /\ turn[t].err = "provider chat error"

\* C4: the consolidation cursor of every session is at most the length of
\* its transcript.
C4_CursorBound ==
  \A k \in DOMAIN cache :
    cache[k].Meta.LastConsolidated <= Len(cache[k].Messages)

\* C5: every session that load returns has its cursor at most the number
\* of its messages.
C5_LoadedCursorBound ==
  (ret.op = "GetOrCreate" /\ ret.loaded)
    => ret.val.Meta.LastConsolidated <= Len(ret.val.Messages)

\* C9: a finished processMessage turn has published exactly one outbound
\* message, to the channel and chat of its inbound message, of type text
\* with the final content on success and of type error on failure; an
\* unfinished one has published none.
C9_OneReplyPerInbound ==
  \A t \in Turns :
    turn[t].kind = "bus"
      => /\ turn[t].pc # "done" => turn[t].out = <<>>
         /\ turn[t].pc = "done"
              => /\ Len(turn[t].out) = 1
                 /\ turn[t].out[1].Channel = turn[t].msg.Channel
                 /\ turn[t].out[1].ChatID = turn[t].msg.ChatID
                 /\ IF turn[t].err = "none"
                    THEN /\ turn[t].out[1].Type = "text"
                         /\ turn[t].out[1].Content = <<turn[t].final>>
                    ELSE turn[t].out[1].Type = "error"

\* one inbound message was answered with text and another with an error
C9_Witness ==
  /\ \E t \in Turns :
      /\ turn[t].pc = "done" /\ turn[t].kind = "bus" /\ turn[t].err = "none"
      /\ turn[t].msg.Channel = <<"tg">>
  /\ \E t \in Turns :
      /\ turn[t].pc = "done" /\ turn[t].kind = "bus" /\ turn[t].err # "none"

\* the turn is inside runToolLoop and works on its message list
Holding(tr) == tr.pc \in {"loop", "tools"}
\* the part of the turn's message list that came from GetHistory
Snapshot(tr) == SubSeq(tr.messages, 1, tr.hlen)
\* number of messages of s at or after its cursor
Unconsolidated(s) ==
  IF Len(s.Messages) > s.Meta.LastConsolidated
  THEN Len(s.Messages) - s.Meta.LastConsolidated ELSE 0

\* C10: the GetHistory call of a turn returns exactly the messages from
\* index LastConsolidated to the end and changes neither the session nor
\* its file; as long as the turn works on that snapshot no step of any
\* other turn changes it.
C10_HistorySnapshot ==
  [][\A t \in Turns :
       /\ (turn[t].pc = "history" /\ turn'[t].pc # "history")
            => /\ UNCHANGED <<cache, disk>>
               /\ turn'[t].hlen = Unconsolidated(cache[turn[t].key])
               /\ \A j \in 1..turn'[t].hlen :
                    LET m == cache[turn[t].key].Messages[
                               cache[turn[t].key].Meta.LastConsolidated + j] IN
                    /\ turn'[t].messages[j].Role = m.Role
                    /\ turn'[t].messages[j].Content = m.Content
       /\ (Holding(turn[t]) /\ Holding(turn'[t]))
            => Snapshot(turn'[t]) = Snapshot(turn[t])
    ]_vars

\* a turn works on a one-message snapshot (cursor 1 of 2) while the session
\* has since grown by the messages of another turn
C10_Witness ==
  \E t \in Turns :
    /\ Holding(turn[t]) /\ turn[t].hlen = 1 /\ turn[t].calls >= 1
    /\ cache[turn[t].key].Meta.LastConsolidated = 1
    /\ Len(cache[turn[t].key].Messages) >= 4

\* C3: a task for which Cancel returned true before it had published its
\* completion never publishes one.
C3_CancelledPublishesNothing ==
  \A k \in TaskIds : task[k].cancelWon => task[k].published = 0

\* C6: once a sendRequest call has returned, by any path, the pending map
\* holds no entry for its id; with no call in flight the map is empty.
C6_NoPendingAfterReturn ==
  /\ \A c \in Calls : call[c].pc = "returned" => call[c].id \notin client.pending
  /\ (\A c \in Calls : call[c].pc \in {"idle", "returned"}) => client.pending = {}

\* C7: no Start or Stop call panics and at most one ticker goroutine runs
\* at a time.
C7_StartStopSafe ==
  /\ ~hb.panicked
  /\ Cardinality(LiveTickers) <= 1

\* C8: after the root ctx is cancelled every long-running task terminates.
\* Run is the only consumer of the inbound lane, so a sub-agent goroutine
\* that waits in PublishInbound on a full buffer after Run has returned
\* can never terminate: the claim excludes every such state.
C8_ShutdownTerminatesTasks ==
  ~(/\ ctxDone
    /\ runPc = "returned"
    /\ Len(inbound) >= BusCap
    /\ \E k \in TaskIds : task[k].pc = "publish")

\* the last message of the session of turn record tr
LastStored(c, tr) == c[tr.key].Messages[Len(c[tr.key].Messages)]

\* C11: a successful turn appends to its session exactly two messages: at
\* its first append the user message with the input text, at its second the
\* assistant message with the final content it returns, neither carrying
\* tool calls nor a tool-call id; no other step of the turn changes the
\* session's messages, so no intermediate assistant or tool message is
\* stored, and a finished successful turn has appended exactly twice.
C11_TurnPersistsUserThenFinal ==
  [][\A t \in Turns :
       turn'[t] # turn[t] =>
         /\ turn[t].pc = "appendUser" =>
              /\ cache'[turn[t].key].Messages
                   = Append(cache[turn[t].key].Messages, LastStored(cache', turn[t]))
              /\ LastStored(cache', turn[t]).Role = "user"
              /\ LastStored(cache', turn[t]).Content = turn[t].msg.Content
              /\ LastStored(cache', turn[t]).ToolCalls = <<>>
              /\ LastStored(cache', turn[t]).ToolCallID = ""
              /\ turn'[t].pc = "appendAssistant"
         /\ turn[t].pc = "appendAssistant" =>
              /\ cache'[turn[t].key].Messages
                   = Append(cache[turn[t].key].Messages, LastStored(cache', turn[t]))
              /\ LastStored(cache', turn[t]).Role = "assistant"
              /\ LastStored(cache', turn[t]).Content = turn[t].final
              /\ LastStored(cache', turn[t]).ToolCalls = <<>>
              /\ LastStored(cache', turn[t]).ToolCallID = ""
              /\ turn'[t].final = turn[t].final
         /\ (turn[t].pc \notin {"appendUser", "appendAssistant"}
               /\ turn[t].key \in DOMAIN cache)
              => /\ cache'[turn[t].key].Messages = cache[turn[t].key].Messages
                 /\ turn[t].pc \in {"save", "publish"} => turn'[t].final = turn[t].final
         /\ (turn'[t].pc = "done" /\ turn'[t].err = "none") => turn'[t].appended = 2
         /\ turn'[t].pc \in {"history", "loop", "tools", "fail"} => turn'[t].appended = 0]_vars

\* a ProcessDirect turn that ran tools has finished on a new session, which
\* holds the input and then the final content and nothing else
C11_Witness ==
  \E t \in Turns :
    /\ turn[t].pc = "done" /\ turn[t].kind = "direct" /\ turn[t].err = "none"
    /\ turn[t].calls = 2 /\ turn[t].final = "done"
    /\ Len(cache[turn[t].key].Messages) = 2
    /\ cache[turn[t].key].Messages[1].Role = "user"
    /\ cache[turn[t].key].Messages[1].Content = "hi"
    /\ cache[turn[t].key].Messages[2].Role = "assistant"
    /\ cache[turn[t].key].Messages[2].Content = "done"

\* C12: when the k-th provider response of a turn is its first without tool
\* calls, runToolLoop returns that response's content after exactly k calls
\* (the k - 1 earlier iterations each ran their tools, k <= maxIter), and
\* once it has returned the turn makes no provider call and runs no tool.
C12_StopsAtFirstFinalResponse ==
  [][\A t \in Turns :
       /\ (LoopReturned(turn'[t]) /\ turn'[t].err = "none" /\ ~turn'[t].allTools)
            => /\ turn'[t].final = turn'[t].lastResp
               /\ turn'[t].calls = turn'[t].i + 1
               /\ turn'[t].calls <= maxIter
               /\ turn'[t].pending = <<>>
       /\ LoopReturned(turn[t])
            => /\ LoopReturned(turn'[t])
               /\ turn'[t].calls = turn[t].calls
               /\ turn'[t].i = turn[t].i
               /\ turn'[t].pending = turn[t].pending]_vars

\* a turn whose second response, at the ceiling of two, was the first
\* without tool calls has finished with that response's content
C12_Witness ==
  \E t \in Turns :
    /\ turn[t].pc = "done" /\ turn[t].err = "none" /\ ~turn[t].allTools
    /\ maxIter = 2 /\ turn[t].calls = 2 /\ turn[t].i = 1
    /\ turn[t].final = "done"

\* the tool call a turn record is about to execute
NextCall(tr) == Head(tr.pending)

\* the message a step has just appended to the turn's message list
Appended(tr) == tr.messages[Len(tr.messages)]

\* C13: every tool execution of a turn yields a text: the tool's output, or
\* "Error executing <name>: ..." when a registered tool fails, or
\* "Unknown tool: <name>. Available tools: ..." when the name is not
\* registered; the loop appends it as the tool message of that call, the
\* turn carries no error, and it goes on with the next tool call or, after
\* the last one, with the next pass of the loop.
C13_ToolFailuresAreData ==
  [][\A t \in Turns :
       (turn[t].pc = "tools" /\ turn'[t] # turn[t]) =>
         /\ turn'[t].messages = Append(turn[t].messages, Appended(turn'[t]))
         /\ Appended(turn'[t]).Role = "tool"
         /\ Appended(turn'[t]).ToolCallID = NextCall(turn[t]).ID
         /\ IF NextCall(turn[t]).Name \in DOMAIN registry
            THEN \/ Appended(turn'[t]).Content = <<"out">>
                 \/ /\ Len(Appended(turn'[t]).Content) = 5
                    /\ SubSeq(Appended(turn'[t]).Content, 1, 3)
                         = <<"Error executing ", NextCall(turn[t]).Name, ": ">>
            ELSE /\ Len(Appended(turn'[t]).Content) >= 3
                 /\ SubSeq(Appended(turn'[t]).Content, 1, 3)
                      = <<"Unknown tool: ", NextCall(turn[t]).Name,
                          ". Available tools: ">>
         /\ turn'[t].err = "none"
         /\ turn'[t].pending = Tail(turn[t].pending)
         /\ turn'[t].pc = IF turn'[t].pending = <<>> THEN "loop" ELSE "tools"
         /\ turn'[t].i = IF turn'[t].pending = <<>> THEN turn[t].i + 1 ELSE turn[t].i]_vars

\* a turn whose first response called a failing tool and an unknown tool
\* holds both texts as tool messages and is about to call the provider again
C13_Witness ==
  \E t \in Turns :
    /\ turn[t].pc = "loop" /\ turn[t].i = 1 /\ maxIter = 2 /\ turn[t].err = "none"
    /\ \E j \in 1..Len(turn[t].messages) :
         /\ turn[t].messages[j].Role = "tool"
         /\ turn[t].messages[j].Content
              = <<"Error executing ", "echo", ": ", "boom",
                  "\n\n[Analyze the error above and try a different approach.]">>
    /\ \E j \in 1..Len(turn[t].messages) :
         /\ turn[t].messages[j].Role = "tool"
         /\ turn[t].messages[j].Content
              = <<"Unknown tool: ", "nope", ". Available tools: ", "echo">>

\* the tool messages msgs[j+1..j+m] answer the calls tcs[1..m], in order
Answers(msgs, j, tcs, m) ==
  \A q \in 1..m : /\ msgs[j + q].Role = "tool"
                  /\ msgs[j + q].ToolCallID = tcs[q].ID

\* from index j on, every assistant message is followed by one tool message
\* per tool call, in the order of the calls, and no other tool message
\* occurs; the last assistant message may still wait for the calls in todo
RECURSIVE PairedFrom(_, _, _)
PairedFrom(msgs, j, todo) ==
  IF j > Len(msgs) THEN TRUE
  ELSE IF msgs[j].Role = "tool" THEN FALSE
  ELSE IF msgs[j].Role = "assistant"
       THEN LET n == Len(msgs[j].ToolCalls)
                avail == Len(msgs) - j IN
            IF avail >= n
            THEN /\ Answers(msgs, j, msgs[j].ToolCalls, n)
                 /\ PairedFrom(msgs, j + n + 1, todo)
            ELSE /\ Answers(msgs, j, msgs[j].ToolCalls, avail)
                 /\ todo = SubSeq(msgs[j].ToolCalls, avail + 1, n)
       ELSE PairedFrom(msgs, j + 1, todo)

\* C14: in the message list of a running agent turn and of a running
\* sub-agent, every tool message follows an assistant message whose
\* tool-call list holds its id, and each assistant message with n tool calls
\* is followed by exactly n tool messages in the order of the calls; while
\* the tools of the last response run, the missing ones are exactly the
\* calls still to be executed.
C14_ToolResultsPaired ==
  /\ \A t \in Turns :
       turn[t].pc \in {"loop", "tools"}
         => PairedFrom(turn[t].messages, 1, turn[t].pending)
  /\ \A k \in TaskIds :
       task[k].pc \in {"loop", "tools"}
         => PairedFrom(task[k].messages, 1, task[k].pending)

\* a turn has answered both calls of its first response while a sub-agent
\* has answered the calls of two responses
C14_Witness ==
  /\ \E t \in Turns :
       /\ turn[t].pc = "loop" /\ turn[t].i = 1
       /\ Len(turn[t].messages) = turn[t].hlen + 4
       /\ turn[t].messages[turn[t].hlen + 3].ToolCallID = "tc1"
       /\ turn[t].messages[turn[t].hlen + 4].ToolCallID = "tc2"
  /\ \E k \in TaskIds :
       /\ task[k].pc = "loop" /\ task[k].i = 2
       /\ Len(task[k].messages) = 5
       /\ task[k].messages[5].ToolCallID = "tc1"

\* the positions of message m in the sequence q
Positions(q, m) == { j \in 1..Len(q) : q[j] = m }

\* C15: the messages ConsumeInbound has returned, followed by the buffered
\* ones, are exactly the messages whose PublishInbound calls have
\* completed, in the order of completion: none is lost, none is returned
\* twice, and they come out in publish order whatever the publishers.
C15_InboundFifo ==
  /\ consumer.got \o inbound = pubLog.inbound
  /\ \A p \in Pubs :
       (pub[p].pc = "returned" /\ pub[p].lane = "inbound")
         => Cardinality(Positions(pubLog.inbound, pub[p].msg)) = 1
  /\ \A j \in 1..Len(pubLog.inbound) :
       \E p \in Pubs : /\ pub[p].pc = "returned" /\ pub[p].lane = "inbound"
                       /\ pub[p].msg = pubLog.inbound[j]

\* three publishers have published, the second one first, through a buffer
\* of two, and the consumer has received all three
C15_Witness ==
  /\ bufSize = 2
  /\ Len(consumer.got) = 3
  /\ consumer.got[1] = LaneInbound(2)
  /\ \E p \in Pubs : pub[p].blocked /\ pub[p].pc = "returned"

\* C16: a PublishInbound call that finds the buffer full does not return
\* in that state; a call returns only by enqueueing its message behind the
\* buffered ones when there is room; the buffer never holds more than
\* bufSize messages, and the only way a message leaves it is at its head,
\* into the hands of ConsumeInbound.
C16_BackPressure ==
  [][/\ \A p \in Pubs :
          (pub[p].pc = "sending" /\ pub[p].lane = "inbound") =>
            /\ Len(inbound) >= bufSize => pub'[p].pc \in {"sending", "panicked"}
            /\ pub'[p].pc = "returned" =>
                 /\ Len(inbound) < bufSize
                 /\ inbound' = Append(inbound, pub[p].msg)
     /\ Len(inbound') <= bufSize
     /\ inbound' # inbound =>
          \/ \E p \in Pubs : /\ pub[p].pc = "sending" /\ pub'[p].pc = "returned"
                            /\ inbound' = Append(inbound, pub[p].msg)
          \/ /\ inbound # <<>>
             /\ inbound' = Tail(inbound)
             /\ consumer'.got = Append(consumer.got, Head(inbound))]_vars

\* a publisher that found the buffer full has returned and its message is
\* buffered, the consumer having taken a message in between
C16_Witness ==
  \E p \in Pubs :
    /\ pub[p].lane = "inbound" /\ pub[p].blocked /\ pub[p].pc = "returned"
    /\ Positions(inbound, pub[p].msg) # {}
    /\ consumer.got # <<>>

\* handler h is subscribed, in subscriptions s, to the channel name or as a
\* wildcard
Registered(s, h, channel) ==
  \/ Positions(SubsOf(s, channel), h) # {}
  \/ Positions(SubsOf(s, Wildcard), h) # {}

\* C17: DispatchOutbound invokes a handler with a message only if, before
\* the invocation, Subscribe had registered it for the message's Channel or
\* as a wildcard; what a step adds to a handler's record is the dispatched
\* message only, and a handler subscribed to other channel names alone
\* gets nothing.
C17_DeliveryRespectsSubscriptions ==
  [][\A h \in Handlers :
       handlerLog'[h] # handlerLog[h] =>
         /\ dispPc = "running" /\ outbound # <<>>
         /\ Registered(subs, h, Head(outbound).Channel)
         /\ \E n \in 1..(2 * MaxSubs) :
              handlerLog'[h] = handlerLog[h] \o [j \in 1..n |-> Head(outbound)]]_vars

\* handler 1 is subscribed to tg and handler 2 as a wildcard; a message for
\* web has reached handler 2 only, a message for tg both
C17_Witness ==
  /\ SubsOf(subs, <<"tg">>) = <<1>> /\ SubsOf(subs, Wildcard) = <<2>>
  /\ \E j \in 1..Len(handlerLog[2]) : handlerLog[2][j].Channel = <<"web">>
  /\ \E j \in 1..Len(handlerLog[1]) : handlerLog[1][j].Channel = <<"tg">>
  /\ \A j \in 1..Len(handlerLog[1]) : handlerLog[1][j].Channel # <<"web">>

\* C18: every handler has been invoked with its messages in the order in
\* which their PublishOutbound calls completed.
C18_OutboundOrder ==
  \A h \in Handlers :
    \A i, j \in 1..Len(handlerLog[h]) :
      i < j =>
        \A a \in Positions(pubLog.outbound, handlerLog[h][i]),
           b \in Positions(pubLog.outbound, handlerLog[h][j]) : a <= b

\* a wildcard handler has received three messages published through a
\* buffer of two, the first of them not from publisher 1
C18_Witness ==
  \E h \in Handlers :
    /\ bufSize = 2
    /\ Positions(SubsOf(subs, Wildcard), h) # {}
    /\ Len(handlerLog[h]) = 3
    /\ handlerLog[h][1].Content # <<ToString(1)>>
    /\ handlerLog[h][1] # handlerLog[h][2] /\ handlerLog[h][2] # handlerLog[h][3]

\* the errors a cancelled or expired ctx gives
CtxErrors == { "context canceled", "context deadline exceeded" }

\* C19: ConsumeInbound returns only published messages; when it returns
\* because its ctx is done it fails with the ctx's error (Cancelled); when
\* it returns because the bus is closed and drained it fails with an error
\* of its own (Closed), which is not the error of a cancelled ctx.
C19_ConsumeOutcomes ==
  /\ \A j \in 1..Len(consumer.got) : Positions(pubLog.inbound, consumer.got[j]) # {}
  /\ consumer.case = "ctx.Done" => consumer.err \in CtxErrors
  /\ consumer.case = "closed" => (consumer.err # "" /\ consumer.err \notin CtxErrors)

\* the messages a dispatch step hands to the adapters' Send
NewSends == { a \in 1..MaxAdapters : sent'[a] # sent[a] }

\* C20: the channel manager calls Send on an adapter only with the message
\* being dispatched, only if its type is neither progress nor tool_hint and
\* the adapter's name is the message's Channel; a dispatched message of
\* another type whose Channel names a registered adapter is sent exactly
\* once, every other message not at all.
C20_ManagerRoutesByChannel ==
  [][/\ \A a \in NewSends :
          /\ dispPc = "running" /\ outbound # <<>>
          /\ a <= Len(channels)
          /\ channels[a] = Head(outbound).Channel
          /\ Head(outbound).Type \notin {"progress", "tool_hint"}
          /\ sent'[a] = Append(sent[a], Head(outbound))
     /\ (outbound # <<>> /\ outbound' = Tail(outbound)) =>
          Cardinality(NewSends) =
            IF /\ ManagerBuilt
               /\ Head(outbound).Type \notin {"progress", "tool_hint"}
               /\ \E a \in 1..Len(channels) : channels[a] = Head(outbound).Channel
            THEN 1 ELSE 0]_vars

\* with adapters web and tg, a text message for tg was sent once by the tg
\* adapter, and a progress message for tg was dispatched without a Send
C20_Witness ==
  /\ channels = << <<"web">>, <<"tg">> >>
  /\ outbound = <<>>
  /\ Len(sent[2]) = 1 /\ sent[2][1].Type = "text" /\ sent[1] = <<>>
  /\ \E j \in 1..Len(pubLog.outbound) :
       /\ pubLog.outbound[j].Type = "progress"
       /\ pubLog.outbound[j].Channel = <<"tg">>

\* C21: the consolidation cursor never moves backwards: over every operation
\* on a session, Meta.LastConsolidated afterwards is greater than or equal
\* to its value before
C21_CursorNeverMovesBack ==
  [][\A k \in DOMAIN cache \cap DOMAIN cache' :
       cache'[k].Meta.LastConsolidated >= cache[k].Meta.LastConsolidated]_vars

\* q is p followed by zero or more further entries
IsPrefix(p, q) == Len(p) <= Len(q) /\ SubSeq(q, 1, Len(p)) = p

AppendedAt(msgs, g, n) ==
  {j \in 1..Len(msgs) : msgs[j].Content = AppenderMsg(g, n).Content}

\* the number of AppendMessage calls that goroutines 1..g have returned from
RECURSIVE ReturnedAppends(_)
ReturnedAppends(g) ==
  IF g = 0 THEN 0 ELSE appender[g].n + ReturnedAppends(g - 1)

\* C23: concurrent appends lose nothing: every AppendMessage call that has
\* returned left its message in the session exactly once, no message is
\* there twice, two appends made one after the other by one goroutine are
\* stored in that order, and when no call is in progress the session holds
\* exactly as many messages as calls were made
C23_ConcurrentAppendsKept ==
  \A k \in DOMAIN cache :
    LET msgs == cache[k].Messages IN
    /\ \A g \in Appenders, n \in 1..AppendsEach :
         /\ Cardinality(AppendedAt(msgs, g, n)) <= 1
         /\ n <= appender[g].n => Cardinality(AppendedAt(msgs, g, n)) = 1
    /\ \A g \in Appenders, n \in 1..AppendsEach, m \in 1..AppendsEach :
         (n < m /\ m <= appender[g].n)
           => \A i \in AppendedAt(msgs, g, n), j \in AppendedAt(msgs, g, m) :
                i < j
    /\ (\A g \in Appenders : appender[g].pc = "idle")
         => Len(msgs) = ReturnedAppends(MaxAppenders)

\* every goroutine has returned from all its appends, the appends of
\* different goroutines are interleaved in the transcript, and a reader has
\* seen all of them
C23_Witness ==
  /\ \A g \in Appenders : appender[g].pc = "idle" /\ appender[g].n = AppendsEach
  /\ \E k \in DOMAIN cache :
       /\ Len(cache[k].Messages) = MaxAppenders * AppendsEach
       /\ cache[k].Messages[1].Content = AppenderMsg(2, 1).Content
       /\ cache[k].Messages[2].Content = AppenderMsg(1, 1).Content
       /\ cache[k].Messages[3].Content = AppenderMsg(2, 2).Content
       /\ ret.op = "AllMessages" /\ ret.val = cache[k].Messages

\* C24: Save then load is a round trip: once Save has returned without an
\* error, GetOrCreate of the same key on a fresh Manager over the same
\* directory yields a session with the same key, timestamps, cursor and the
\* same messages in the same order
C24_SaveLoadRoundTrip ==
  (ret.op = "Save" /\ ~ret.err /\ ret.key \in DOMAIN cache)
    => GetOrCreateCache(<< >>, disk, ret.key)[ret.key] = cache[ret.key]

\* the replies call c has been handed: the one in its reply channel and the
\* one it returned
RepliesOf(c) ==
  {call[c].respCh[j].ID : j \in 1..Len(call[c].respCh)}
    \cup (IF call[c].pc = "returned" /\ call[c].result.err \in {"", "JSON-RPC error"}
          THEN {call[c].result.ID} ELSE {})

C26_CancelResult ==
  [][/\ \A id \in TaskIds : task'[id].cancelled => id \notin running'
     /\ (subRet' # subRet /\ subRet'.op = "Cancel")
          => /\ subRet'.val <=> (subRet'.id \in running)
             /\ subRet'.id \notin running']_vars

\* a second Cancel of a task has returned false after the first returned
\* true, while the other task is still running
C26_Witness ==
  /\ subRet = [op |-> "Cancel", id |-> 0, val |-> FALSE]
  /\ task[0].cancelled
  /\ task[0].pc # "done"
  /\ running = {1}

\* C27: a task whose goroutine has left its loop and ended has published
\* exactly one completion message, no task publishes more than one, and the
\* message published has channel system, SessionKeyOverride
\* "<originChannel>:<originChatID>" and a content that starts with
\* [Subagent "<label>" completed]
C27_CompletionInjectedOnce ==
  [][\A k \in TaskIds :
       /\ task'[k].published <= 1
       /\ task'[k].pc \in {"cleanup", "done"} => task'[k].published = 1
       /\ task'[k].published # task[k].published
            => /\ task'[k].published = task[k].published + 1
               /\ Len(inbound') = Len(inbound) + 1
               /\ LET m == inbound'[Len(inbound')] IN
                  /\ m.Channel = <<"system">>
                  /\ m.SessionKeyOverride =
                       task[k].args.originChannel \o <<":">>
                         \o task[k].args.originChatID
                  /\ SubSeq(m.Content, 1, 5) =
                       <<"[Subagent ", "\"", task[k].args.label, "\"",
                         " completed]">>]_vars

\* one task ended at the iteration ceiling and the other on a final
\* response, neither was cancelled, and each has published once
C27_Witness ==
  /\ \A k \in TaskIds : task[k].pc = "done" /\ ~task[k].cancelled
                        /\ task[k].published = 1
  /\ task[0].result = <<"thinking">>
  /\ task[1].result = <<"result">>

\* the robfig/cron expression "M H * * *"
DailyAt(h, m) == <<Num(m), Sym(" "), Num(h), Sym(" * * *")>>

\* C28: toCronExpr of an at-schedule H:M returns "M H * * *" exactly when
\* 0 <= H <= 23 and 0 <= M <= 59 and an error otherwise; AddJob with such a
\* schedule registers the job under that expression; AddJob with a schedule
\* that toCronExpr rejects returns an error and leaves the scheduler, both
\* maps and the store as they were
C28_AtScheduleValidation ==
  [][/\ \A h \in HoursTried, m \in MinutesTried :
          AddJob(AtSchedule(h, m), "ping", <<"test-session">>) =>
            IF h >= 0 /\ h <= 23 /\ m >= 0 /\ m <= 59
            THEN /\ toCronExpr(AtSchedule(h, m)) =
                      [err |-> FALSE, expr |-> DailyAt(h, m)]
                 /\ cronRet'.err = ""
                 /\ cronRet'.id \in DOMAIN cron'.jobs
                 /\ cron'.entries[cron'.jobs[cronRet'.id]].spec = DailyAt(h, m)
            ELSE toCronExpr(AtSchedule(h, m)).err
     /\ \A sc \in SchedulesTried :
          AddJob(sc, "ping", <<"test-session">>) /\ toCronExpr(sc).err =>
            /\ cronRet'.err # ""
            /\ cron' = cron
            /\ cronStore' = cronStore]_vars

\* 23:59 was registered as "59 23 * * *" and 25:00 has just been rejected
C28_Witness ==
  /\ cronRet.op = "AddJob"
  /\ cronRet.schedule = AtSchedule(25, 0)
  /\ cronRet.err # ""
  /\ \E id \in DOMAIN cron.jobs :
       /\ cron.jobDefs[id].Schedule = AtSchedule(23, 59)
       /\ cron.entries[cron.jobs[id]].spec = DailyAt(23, 59)

\* the fields of a job that a restart keeps
JobFields(job) ==
  [Schedule |-> job.Schedule, Message |-> job.Message,
   SessionKey |-> job.SessionKey]

\* the jobs of set a and the jobs of set b pair up one to one with the same
\* schedule, message and session key
SameJobs(a, b) ==
  \E f \in [a -> b] :
    /\ \A x, y \in a : x # y => f[x] # f[y]
    /\ \A z \in b : \E x \in a : f[x] = z
    /\ \A x \in a : JobFields(f[x]) = JobFields(x)

\* the jobs ListJobs returns
Listed == {cron.jobDefs[id] : id \in DOMAIN cron.jobDefs}

TriggerMessage(job) ==
  [Channel |-> <<"system">>, SenderID |-> "", ChatID |-> <<>>,
   Content |-> job.Message, SessionKeyOverride |-> job.SessionKey,
   Metadata |-> [source |-> "cron", job_id |-> job.ID]]

\* C30: a job fires only while the scheduler is started and the job is
\* registered under the id AddJob returned for it; each firing publishes
\* exactly one inbound message, with channel system, the job's message as
\* content, the job's session key as SessionKeyOverride and metadata
\* source=cron, job_id=<that id>; nothing else is published
C30_TriggerPublishesOneMessage ==
  [][/\ \A g \in 1..MaxFirings :
          /\ firing[g] = Nil /\ firing'[g] # Nil =>
               /\ cron.started
               /\ firing'[g].job.ID \in DOMAIN cron.jobs
               /\ firing'[g].job = cron.jobDefs[firing'[g].job.ID]
          /\ firing[g] # Nil /\ firing'[g] = Nil =>
               inbound' = Append(inbound, TriggerMessage(firing[g].job))
          /\ firing[g] # Nil /\ firing'[g] # Nil => firing'[g] = firing[g]
     /\ Len(inbound') > Len(inbound) =>
          Cardinality({g \in 1..MaxFirings :
                         firing[g] # Nil /\ firing'[g] = Nil}) = 1
     /\ cronRet'.op = "AddJob" /\ cronRet'.err = ""
          /\ cron'.counter # cron.counter =>
          /\ cronRet'.id \notin DOMAIN cron.jobs
          /\ cronRet'.id \in DOMAIN cron'.jobs
          /\ cron'.jobDefs[cronRet'.id].ID = cronRet'.id]_vars

\* the second job added has fired while registered and started, and its
\* message is in the inbound lane
C30_Witness ==
  /\ cron.started
  /\ CronID(1) \in DOMAIN cron.jobs
  /\ inbound # <<>>
  /\ Head(inbound) = TriggerMessage(cron.jobDefs[CronID(1)])
  /\ \E g \in 1..MaxFirings : firing[g] # Nil

\* C31: no goroutine holds Manager.mu while it reads or writes a session
\* file, so that a GetOrCreate of one key never waits for the disk load or
\* save of another key
C31_NoDiskIOUnderManagerLock ==
  \A g \in Getters : getter[g].pc \in {"reading", "writing"} => mgrMu # g

\* call c has returned the reply it received
GotReply(c) == call[c].pc = "returned" /\ "ID" \in DOMAIN call[c].result

\* C32: with several sendRequest calls in flight and replies in any order,
\* a caller is handed only a reply that carries the id of its own request,
\* and at most one; no two requests of a client share an id; a response
\* whose id has no pending entry is dropped by the reader
C32_ReplyMatchesRequest ==
  /\ \A c \in Calls :
       /\ \A i \in 1..Len(call[c].respCh) : call[c].respCh[i].ID = call[c].id
       /\ GotReply(c) => call[c].result.ID = call[c].id
       /\ Len(call[c].respCh) + (IF GotReply(c) THEN 1 ELSE 0) <= 1
  /\ \A c, d \in Calls :
       c # d /\ call[c].pc # "idle" /\ call[d].pc # "idle" =>
         call[c].id # call[d].id
  /\ reader.pc = "send" =>
       /\ reader.resp.ID \notin client.pending
       /\ \E c \in Calls : call[c].pc # "idle" /\ call[c].id = reader.resp.ID

\* two requests in flight, answered out of order: the second caller has its
\* reply while the first one still waits
C32_Witness ==
  \E c, d \in Calls :
    /\ call[c].pc = "wait" /\ call[c].respCh = <<>>
    /\ call[c].id < call[d].id
    /\ GotReply(d)
    /\ call[d].result.ID = call[d].id

\* C33: after ConnectMCPServers has succeeded, every tool a configured
\* server reported is in the registry under mcp_<server>_<tool> as the
\* wrapper of that server and tool, and the tools registered before are
\* still the ones found under their names
C33_RegistrationCannotCollide ==
  connRet # Nil /\ ~connRet.err =>
    /\ \A srv \in Configured : \A i \in 1..Len(conn[srv].tools) :
         /\ WrapperName(srv, conn[srv].tools[i]) \in DOMAIN registry
         /\ registry[WrapperName(srv, conn[srv].tools[i])]
              = Wrapper(srv, conn[srv].tools[i])
    /\ \A n \in DOMAIN LocalTools :
         n \in DOMAIN registry /\ registry[n] = LocalTools[n]

\* C34: turns that Run started on one session do not interleave in the
\* transcript: from the moment such a turn has appended its user message
\* until it appends its assistant reply, nothing else is appended to that
\* session, so the reply comes right after the user message it answers
C34_TurnsDoNotInterleave ==
  [][\A t \in Turns :
       (/\ turn[t].kind = "bus"
        /\ turn[t].pc = "appendAssistant"
        /\ turn'[t].pc = "appendAssistant")
         => cache'[turn[t].key].Messages = cache[turn[t].key].Messages]_vars

\* the number of times handler h has been registered, in subscriptions s,
\* for the channel name or as a wildcard
Registrations(s, h, channel) ==
  Cardinality({ r \in {channel, Wildcard} \X (1..MaxSubs) :
                  r[2] <= Len(SubsOf(s, r[1])) /\ SubsOf(s, r[1])[r[2]] = h })

\* C35: for every outbound message DispatchOutbound takes off the lane,
\* whatever its Channel, the empty name included, a handler is invoked
\* with it exactly once for each time it was registered for that channel
\* name or as a wildcard
C35_EachHandlerOncePerMessage ==
  [][dispPc = "running" /\ outbound # <<>> /\ outbound' = Tail(outbound) =>
       \A h \in Handlers :
         handlerLog'[h] =
           handlerLog[h] \o
             [j \in 1..Registrations(subs, h, Head(outbound).Channel) |->
                Head(outbound)]]_vars

\* C36: when processMessage publishes the reply of a turn whose inbound
\* message is the completion message of a sub-agent spawned for origin
\* channel C and chat X, the outbound message is addressed to channel C
\* and chat X
C36_ReplyReachesOriginChat ==
  [][\A t \in Turns :
       (/\ turn[t].pc = "publish"
        /\ turn'[t].pc = "done"
        /\ turn[t].msg.Channel = <<"system">>)
         => \E a \in SpawnArgs :
              /\ turn[t].msg = CompletionMessage(a, SubSeq(turn[t].msg.Content, 7, Len(turn[t].msg.Content)))
              /\ Len(outbound') = Len(outbound) + 1
              /\ outbound'[Len(outbound')].Channel = a.originChannel
              /\ outbound'[Len(outbound')].ChatID = a.originChatID]_vars

\* C37: a message published on the inbound lane with metadata job_id = id
\* is published while id is registered, never after RemoveJob(id) took it
\* out of the job set; and a RemoveJob that returns an error leaves the
\* job set and the persisted store as they were
C37_RemovedJobNeverFires ==
  [][/\ Len(inbound') = Len(inbound) + 1
          => inbound'[Len(inbound')].Metadata.job_id \in DOMAIN cron.jobs
     /\ (/\ cronRet' # cronRet
         /\ cronRet'.op = "RemoveJob"
         /\ cronRet'.err # "")
          => /\ cron' = cron
             /\ cronStore' = cronStore]_vars

\* C38: when LoadFromDisk has ended on the Service of the new process,
\* every job the old process listed is registered under the id it had,
\* with the fields and the creation time it had, so that RemoveJob of the
\* old id removes that job
C38_JobIdentityStable ==
  loader.pc = "done" =>
    \A job \in loader.listed :
      /\ job.ID \in DOMAIN cron.jobDefs
      /\ cron.jobDefs[job.ID] = job

\* C39: the session GetOrCreate(k) returns, and every session the cache
\* holds under k, has Meta.Key = k, so that what it holds was appended
\* and saved under k and under no other key
C39_SessionsIsolatedByKey ==
  /\ \A k \in DOMAIN cache : cache[k].Meta.Key = k
  /\ ret.op = "GetOrCreate" => ret.val.Meta.Key = ret.key

\* C40: a sendRequest that waits for its reply when readLoop has ended
\* (the sub-process exited or closed its stdout) eventually returns, also
\* when its ctx is never cancelled
C40_PendingRequestReturns ==
  \A c \in Calls :
    (call[c].pc = "wait" /\ reader.pc = "exited") ~> (call[c].pc = "returned")

====
